---- MODULE Spec2Model ----
(***************************************************************************)
(* Leaflet (dangphung4/Leaflet): the local-first synchronisation logic of  *)
(* the Calendar page (loadEvents), the EditNote page (subscription,        *)
(* saveNote, debounced saves) and the Notes page (list subscriptions).     *)
(***************************************************************************)
EXTENDS Integers, Sequences, FiniteSets, TLC

(***************************************************************************)
(* Bounds of the model.                                                    *)
(***************************************************************************)
MaxRemote == 2
MaxLocal == 2

(***************************************************************************)
(* JavaScript values.                                                      *)
(***************************************************************************)
\* event.firebaseId === undefined (a record not yet uploaded)
NoId == "<undefined>"
\* a Date field that is undefined
NoDate == -1
\* the local (Dexie auto-increment) id of a record that has none
NoLocalId == 0

FirebaseIds == {"r1", "r2"}
\* <<startDate, endDate>> of an event: one that starts at 1 and has no end,
\* one that lasts from 2 to 3
Spans == {<<1, NoDate>>, <<2, 3>>}

\* the time value of an Invalid Date (NaN)
InvalidDate == -2

\* new Date(d): a copy of a Date holds its time value, new Date(undefined)
\* is an Invalid Date
NewDate(d) == IF d = NoDate THEN InvalidDate ELSE d
\* event.endDate ? new Date(event.endDate) : undefined
OptDate(d) == IF d # NoDate THEN NewDate(d) ELSE NoDate
\* new Date(x).getTime()
GetTime(d) == NewDate(d)

\* the records db.getSharedEvents() can resolve to: always an external id
RemoteEvent ==
    {[id |-> NoLocalId, firebaseId |-> f, startDate |-> s[1], endDate |-> s[2]] :
        f \in FirebaseIds, s \in Spans}
\* the rows of the table db.calendarEvents, without the primary key
LocalRow ==
    {[firebaseId |-> f, startDate |-> s[1], endDate |-> s[2]] :
        f \in FirebaseIds \cup {NoId}, s \in Spans}

SeqsUpTo(S, n) == UNION {[1..k -> S] : k \in 0..n}

\* db.calendarEvents.toArray(): row i carries the auto-increment key i
WithKeys(rows) ==
    [i \in DOMAIN rows |->
        [id |-> i, firebaseId |-> rows[i].firebaseId,
         startDate |-> rows[i].startDate, endDate |-> rows[i].endDate]]

(***************************************************************************)
(* The Map of loadEvents: a sequence of <<key, value>> in insertion order. *)
(***************************************************************************)
MapHas(m, k) == \E i \in DOMAIN m : m[i][1] = k

\* a list in place of the Map: every set appends
MapSetAppend(m, k, v) == Append(m, <<k, v>>)

\* Map.prototype.set: a present key keeps its position and takes the value
MapSet(m, k, v) ==
    IF MapHas(m, k)
    THEN [i \in DOMAIN m |-> IF m[i][1] = k THEN <<k, v>> ELSE m[i]]
    ELSE Append(m, <<k, v>>)

\* Array.from(eventMap.values())
MapValues(m) == [i \in DOMAIN m |-> m[i][2]]

\* the object stored for a Firebase event (Calendar.tsx 2405-2410)
ConvertEvent(e) ==
    [id |-> e.id, firebaseId |-> e.firebaseId,
     startDate |-> NewDate(e.startDate), endDate |-> OptDate(e.endDate)]

\* a merge that takes no record from the remote list
AddFirebaseEventsNone(m, fb) == m

RECURSIVE AddFirebaseEvents(_, _)
\* firebaseEvents.forEach(event => eventMap.set(event.firebaseId, {...}))
AddFirebaseEvents(m, fb) ==
    IF fb = << >> THEN m
    ELSE AddFirebaseEvents(
            MapSet(m, Head(fb).firebaseId, ConvertEvent(Head(fb))), Tail(fb))

RECURSIVE AddLocalEventsOverwrite(_, _)
\* the local pass without the has() test
AddLocalEventsOverwrite(m, loc) ==
    IF loc = << >> THEN m
    ELSE AddLocalEventsOverwrite(
            MapSet(m, Head(loc).firebaseId, Head(loc)), Tail(loc))

RECURSIVE AddLocalEvents(_, _)
\* localEvents.forEach(event => { if (!eventMap.has(..)) eventMap.set(..) })
AddLocalEvents(m, loc) ==
    IF loc = << >> THEN m
    ELSE AddLocalEvents(
            IF ~MapHas(m, Head(loc).firebaseId)
            THEN MapSet(m, Head(loc).firebaseId, Head(loc))
            ELSE m,
            Tail(loc))

\* the comparator of the sort: a.startDate - b.startDate
Compare(a, b) == GetTime(a.startDate) - GetTime(b.startDate)

RECURSIVE InsertSorted(_, _)
\* insert e after every element that does not compare greater (stable)
InsertSorted(s, e) ==
    IF s = << >> THEN <<e>>
    ELSE IF Compare(Head(s), e) > 0 THEN <<e>> \o s
    ELSE <<Head(s)>> \o InsertSorted(Tail(s), e)

\* a list left in the order of the Map's values
SortByStartNone(s) == s

RECURSIVE SortByStart(_)
\* Array.prototype.sort with the comparator: stable
SortByStart(s) ==
    IF s = << >> THEN << >>
    ELSE InsertSorted(SortByStart(SubSeq(s, 1, Len(s) - 1)), s[Len(s)])

\* allEvents of loadEvents
MergeEvents(fb, loc) ==
    SortByStart(MapValues(AddLocalEvents(AddFirebaseEvents(<< >>, fb), loc)))

(***************************************************************************)
(* State.                                                                  *)
(***************************************************************************)
VARIABLES
    \* Calendar page
    remoteStore,     \* what db.getSharedEvents() resolves to
    localStore,      \* the table db.calendarEvents
    events,          \* useState: events
    isLoading,       \* useState: isLoading
    toast,           \* the last toast shown
    loadPc,          \* position of the running loadEvents call
    firebaseEvents,  \* const firebaseEvents of the last call
    localEvents,     \* const localEvents of the last call
    loadOutcome,     \* how the last loadEvents call ended
    currentUser,     \* auth.currentUser of the Calendar page
    loads,           \* the loadEvents calls in flight, each with its own reads
    nLoads,          \* how many loadEvents calls were made
    ops,             \* the handlers of user actions waiting at their await
    nOps,            \* how many actions the user has taken
    nextKey,         \* the next auto-increment key of db.calendarEvents
    unhandled,       \* a rejection has escaped its handler
    calStep,         \* the last step the Calendar page took
    removed,         \* the external ids of rows deleted only locally
    \* EditNote page
    mounted,         \* the EditNote component is displayed
    routeId,         \* useParams: id
    user,            \* useAuth: user
    editSubs,        \* the listeners EditNote holds at Firestore
    editFailed,      \* the listeners of this effect run that reported an error
    note,            \* useState: note
    title,           \* useState: title
    content,         \* useState: content
    noteLoading,     \* useState: isLoading
    saveStatus,      \* useState: saveStatus
    localNotes,      \* the table db.notes, by local id
    timers,          \* the armed debounce timers (lodash debounce)
    saves,           \* the saveNote calls in flight
    inputs,          \* how many times the user has typed
    notifs,          \* how many notifications were delivered
    lastStep,        \* the last step the page took
    lastDoc,         \* the document of the last notification handled
    lastSave,        \* the saveNote call started last, and how it ended
    lastPinned,      \* isPinned of the last notification of the listener
    recording,       \* lastSave and lastPinned are recorded (SpecHist only)
    \* Notes page
    npMounted,       \* the Notes component is displayed
    npUser,          \* useAuth: user
    listSubs,        \* the listeners the Notes page holds at Firestore
    listFailed,      \* the listeners of this effect run that failed
    shares,          \* useState: shares
    notes,           \* useState: notes
    fetches,         \* the getDocs calls of shares handlers in flight
    npNotifs,        \* how many list notifications were delivered
    lastShares,      \* the last shares notification delivered
    fetchFailed,     \* a getDocs call of a shares handler has rejected
    initLoads,       \* the loadInitialData calls in flight
    npLoading,       \* useState: isLoading of the Notes page
    lastOwned,       \* the last owned-notes notification delivered
    npStep,          \* the last step that called setNotes
    \* Google Docs import and export
    googleToken,     \* what db.getGoogleToken() resolves to
    docsCall,        \* the import or export handler waiting at its await
    docsToast,       \* the last toast of an import or export
    loginOpen,       \* the consent popup of useGoogleLogin, and who opened it
    lastStatus,      \* the status of the last answer of the Google API
    docsStep,        \* how the last step of an import or export ended
    nRequests,       \* how many imports and exports the user started
    \* Calendar page: the event editor
    viewer,          \* auth.currentUser.email
    storedEvent,     \* the event as the store holds it
    selectedEvent,   \* useState: selectedEvent
    dialog,          \* isEventDetailsOpen and isEditing
    formEvent,       \* useState of EventForm: event
    shareEmails,     \* useState of EventForm: shareEmails, line by line
    sharePermission, \* useState of EventForm: sharePermission
    updating,        \* the event of the db.updateCalendarEvent call in flight
    nEdits,          \* how many times the user pressed Update
    deleting,        \* a db.deleteCalendarEvent call is in flight
    \* the preview of a note
    cardContent,     \* JSON.parse(content) of getPreviewText
    cardMaxLength,   \* maxLength of getPreviewText
    cardPreview,     \* what getPreviewText returned
    previewDone,     \* getPreviewText has returned
    \* EditNote page: handleDelete
    deleteCall,      \* the handleDelete call: its position and the user it read
    inLocal,         \* the note is in the local cache (db.notes)
    inRemote,        \* the note is in the remote store
    \* Productivity page: the pomodoro timer
    now,             \* Date.now() in whole seconds
    activePomodoro,  \* useState activePomodoro
    timeLeft,        \* useState timeLeft
    isPaused,        \* useState isPaused
    pausedTimeLeft,  \* useState pausedTimeLeft
    startCall,       \* a startPomodoro call is awaiting db.startPomodoroSession
    completing,      \* completePomodoro calls awaiting db.completePomodoroSession
    completeCalls,   \* db.completePomodoroSession invocations for the session
    toggles,         \* how many times the user pressed pause/resume
    sessions,        \* how many sessions the user started
    lastPause        \* timeLeft at the last pause, and whether it was resumed

opsVars == <<currentUser, loads, nLoads, ops, nOps, nextKey, unhandled,
             calStep, removed>>

calVars == <<remoteStore, localStore, events, isLoading, toast, loadPc,
             firebaseEvents, localEvents, loadOutcome, opsVars>>

histVars == <<lastSave, lastPinned, recording>>

editVars == <<mounted, routeId, user, editSubs, editFailed, note, title, content,
              noteLoading, saveStatus, localNotes, timers,
              saves, inputs, notifs, lastStep, lastDoc, histVars>>

loadVars == <<initLoads, npLoading, lastOwned, npStep>>

listVars == <<npMounted, npUser, listSubs, listFailed, shares, notes, fetches, npNotifs,
              lastShares, fetchFailed, loadVars>>

docsVars == <<googleToken, docsCall, docsToast, loginOpen, lastStatus,
              docsStep, nRequests>>

shareVars == <<viewer, storedEvent, selectedEvent, dialog, formEvent, shareEmails,
               sharePermission, updating, nEdits, deleting>>

cardVars == <<cardContent, cardMaxLength, cardPreview, previewDone>>

delVars == <<deleteCall, inLocal, inRemote>>

pomVars == <<now, activePomodoro, timeLeft, isPaused, pausedTimeLeft, startCall,
             completing, completeCalls, toggles, sessions, lastPause>>

vars == <<calVars, editVars, listVars, docsVars, shareVars, cardVars, delVars, pomVars>>

(***************************************************************************)
(* EditNote page: values.                                                  *)
(***************************************************************************)
\* how many times the user types, how many notifications Firestore delivers
\* to the listeners of the two pages together
MaxInputs == 2
MaxNotifs == 2

NoUser == "<null>"
Users == {"u1"}
NoteIds == {"n1", "n2"}
\* local (Dexie) ids of notes; an undefined id is NoId
NoteKeys == {"k1"}
\* what the user types into the title input and into the editor
TypedTitles == {"T2"}
TypedContents == {"C2"}
\* Firestore Timestamps (seconds) of a payload
Timestamps == {1}
\* new Date() at the time of a save
Now == 2000

\* Timestamp.toDate(): seconds to a Date's milliseconds; x?.toDate() of an
\* undefined field is undefined
ToDate(ts) == IF ts = NoDate THEN NoDate ELSE ts * 1000

\* note === null
NoNote == [id |-> NoId, firebaseId |-> NoId, title |-> "", content |-> "",
           updatedAt |-> NoDate, lastEditedByEmail |-> NoUser,
           isPinned |-> FALSE]

\* doc.data() of a notification for an existing document: a note uploaded
\* without a local id and with no editor fields yet, or a note with a local
\* id as a save of some user left it
Payload ==
    [id : {NoId}, title : {"T0"}, content : {"C0"},
     updatedAt : {NoDate}, lastEditedByEmail : {NoUser}, isPinned : {FALSE}]
    \cup [id : NoteKeys, title : {"T1"}, content : {"C1"},
          updatedAt : Timestamps, lastEditedByEmail : Users, isPinned : {TRUE}]

\* no saveNote call started yet
NoSave == [updatedNote |-> NoNote, outcome |-> "none"]

\* no notification arrived while a debounced save was armed or a saveNote
\* call was in flight
NoPinned == [seen |-> FALSE, value |-> FALSE]

\* such a notification is remembered until the saves it met have ended
KeepPinned == lastPinned' = IF timers = {} /\ saves = {} THEN NoPinned ELSE lastPinned

\* the save started last is remembered while a save is in flight and until
\* the step after the last one ended
KeepSave == lastSave' = IF saves = {} THEN NoSave ELSE lastSave

\* no notification handled yet
NoDoc == [docId |-> NoId, exists |-> FALSE, data |-> NoNote]

\* a page that is not displayed
EditNoteAbsent ==
    /\ mounted = FALSE
    /\ routeId = "n1"
    /\ user = NoUser
    /\ editSubs = {}
    /\ editFailed = {}
    /\ note = NoNote
    /\ title = ""
    /\ content = ""
    /\ noteLoading = TRUE
    /\ saveStatus = "saved"
    /\ localNotes = [k \in NoteKeys |-> [title |-> "T0", content |-> "C0"]]
    /\ timers = {}
    /\ saves = {}
    /\ inputs = 0
    /\ notifs = 0
    /\ lastStep = "none"
    /\ lastDoc = NoDoc
    /\ lastSave = NoSave
    /\ lastPinned = NoPinned
    /\ recording = FALSE

(***************************************************************************)
(* Notes page: values.                                                     *)
(***************************************************************************)
\* the notes of other users that can be shared with the user
SharedIds == {"s1", "s2"}
OtherUser == "u2"
\* the notes the user can own
OwnedIds == {"o1"}

\* the noteId lists a shares notification can carry
SharesData == {<< >>, <<"s1">>, <<"s2">>, <<"s1", "s2">>}
\* the document ids an owned-notes notification can carry
OwnedData == {<< >>, <<"o1">>}

NoShares == [seen |-> FALSE, ids |-> << >>]
\* afterRead: a loadInitialData call had read the owned notes before
NoOwned == [seen |-> FALSE, ids |-> << >>, afterRead |-> FALSE]

\* the Notes page is not displayed
NotesAbsent ==
    /\ npMounted = FALSE
    /\ npUser = NoUser
    /\ listSubs = {}
    /\ listFailed = {}
    /\ shares = << >>
    /\ notes = << >>
    /\ fetches = {}
    /\ npNotifs = 0
    /\ lastShares = NoShares
    /\ fetchFailed = FALSE
    /\ initLoads = {}
    /\ npLoading = FALSE
    /\ lastOwned = NoOwned
    /\ npStep = "none"

\* no user action taken, no concurrent loadEvents call
NoOps ==
    /\ currentUser = NoUser
    /\ loads = {}
    /\ nLoads = 0
    /\ ops = {}
    /\ nOps = 0
    /\ nextKey = 1
    /\ unhandled = FALSE
    /\ calStep = "none"
    /\ removed = {}

\* the Calendar page is not displayed
CalendarAbsent ==
    /\ NoOps
    /\ remoteStore = << >>
    /\ localStore = << >>
    /\ events = << >>
    /\ isLoading = FALSE
    /\ toast = "none"
    /\ loadPc = "idle"
    /\ firebaseEvents = << >>
    /\ localEvents = << >>
    /\ loadOutcome = "none"

(***************************************************************************)
(* Google Docs import and export (ImportDialog.tsx 82-120, 229-318;        *)
(* EditNote.tsx 203-323, 584-772).                                         *)
(***************************************************************************)
\* how many imports and exports the user starts
MaxRequests == 2

\* HTTP statuses of the answers of the Google API; 0 before any answer
Unauthorized == 401
Statuses == {200, Unauthorized, 500}

\* response.ok
Ok(status) == status >= 200 /\ status <= 299

\* Error messages, word by word
FailedToFetch == <<"Failed", "to", "fetch", "document">>
NoContentFound == <<"No", "content", "found", "in", "document">>
FailedToCreate == <<"Failed", "to", "create", "Google", "Doc">>
FailedToUpdate == <<"Failed", "to", "update", "Google", "Doc">>

\* errorData.error?.message of an answer with the given status
ApiMessages(status) ==
    IF status = Unauthorized
    THEN {<< >>,
          <<"Request", "had", "invalid", "authentication", "credentials.">>,
          <<"401", "Unauthorized">>}
    ELSE {<< >>, <<"Internal", "error", "encountered.">>}

\* a || b on strings
OrElse(a, b) == IF a # << >> THEN a ELSE b

\* error.message.includes('401')
Includes401(message) == \E i \in DOMAIN message : message[i] = "401"

\* the status the API answers with to a request that carries the token
StatusesFor(token) ==
    IF token = "expired" THEN {Unauthorized} ELSE Statuses \ {Unauthorized}

\* a handler waiting at an await
DocsCall(kind, pc, token) == [kind |-> kind, pc |-> pc, token |-> token]
NoCall == DocsCall("none", "idle", "none")

\* no import or export was started
DocsAbsent ==
    /\ googleToken = "none"
    /\ docsCall = NoCall
    /\ docsToast = "none"
    /\ loginOpen = "none"
    /\ lastStatus = 0
    /\ docsStep = "none"
    /\ nRequests = 0

(***************************************************************************)
(* Calendar page: the share list of an event in the details dialog and in  *)
(* EventForm (Calendar.tsx 1385-1666, 2920-2994, 3098-3112).               *)
(***************************************************************************)
\* how many times the user presses Update
MaxEdits == 1

\* an entry of sharedWith
Share(email, permission, status) ==
    [email |-> email, permission |-> permission, status |-> status]

\* the event the page shows: made by a@x, shared with b@x and c@x
SharedEvent ==
    [id |-> 1, createdBy |-> "a@x",
     sharedWith |-> <<Share("b@x", "edit", "accepted"),
                      Share("c@x", "view", "accepted")>>]
NoEvent == [id |-> NoLocalId, createdBy |-> NoUser, sharedWith |-> << >>]

\* what the user can type into the textarea, line by line
ShareLines == {<< >>, <<"c@x">>, <<"d@x">>, <<"d@x", "d@x">>}

\* a condition that renders the Edit button for everybody
CanEditAnyone(event, email) == TRUE

\* the condition under which the Edit button is rendered
CanEdit(event, email) ==
    \/ event.createdBy = email
    \/ \E i \in DOMAIN event.sharedWith :
          /\ event.sharedWith[i].email = email
          /\ event.sharedWith[i].permission = "edit"

\* the condition under which the Delete button is rendered
CanDelete(event, email) == event.createdBy = email

\* newShares of the Update button
NewShares(lines, permission) ==
    [i \in DOMAIN lines |-> Share(lines[i], permission, "pending")]

\* uniqueNewShares of the Update button
UniqueNewShares(existing, newShares) ==
    SelectSeq(newShares,
              LAMBDA n : \A i \in DOMAIN existing : existing[i].email # n.email)

\* the event editor is not displayed
ShareAbsent ==
    /\ viewer = NoUser
    /\ storedEvent = NoEvent
    /\ selectedEvent = NoEvent
    /\ dialog = "closed"
    /\ formEvent = NoEvent
    /\ shareEmails = << >>
    /\ sharePermission = "view"
    /\ updating = NoEvent
    /\ nEdits = 0
    /\ deleting = FALSE

(***************************************************************************)
(* getPreviewText (part_005 29-92).                                        *)
(***************************************************************************)
\* how many blocks a stored content has
MaxBlocks == 2

\* the values of maxLength the preview is asked for
MaxLengths == {1, 3}

\* JSON null, and a content that JSON.parse rejects
Null == [null |-> TRUE]
NotJson == <<[notJson |-> TRUE]>>

\* inline items: null, an object without text, and texts of one and two
\* characters
Items == {Null, [styles |-> "bold"], [text |-> <<"a">>], [text |-> <<"b", "c">>]}

\* blocks: null, a block whose content is no array, and blocks with up to
\* two items
Blocks ==
    {Null} \cup [type : {"paragraph", "heading"}]
           \cup [type : {"paragraph", "heading"}, content : SeqsUpTo(Items, 2)]

\* the parsed contents the notes hold
Contents == SeqsUpTo(Blocks, MaxBlocks) \cup {NotJson}

\* the switch on block.type
PreviewType(block) ==
    IF "type" \in DOMAIN block /\ block.type = "heading" THEN "heading" ELSE "text"

\* item.text?.length || 0
TextLength(item) == IF "text" \in DOMAIN item THEN Len(item.text) ELSE 0

\* the loop over block.content; threw tells of a TypeError
RECURSIVE ProcessItems(_, _, _, _)
ProcessItems(items, maxLength, totalLength, acc) ==
    IF items = << >> \/ totalLength >= maxLength
    THEN [threw |-> FALSE, content |-> acc, totalLength |-> totalLength]
    ELSE LET item == Head(items) IN
         IF item = Null
         THEN [threw |-> TRUE, content |-> acc, totalLength |-> totalLength]
         ELSE IF totalLength + TextLength(item) > maxLength
         THEN [threw |-> FALSE,
               content |-> Append(acc,
                   [text |-> SubSeq(item.text, 1, maxLength - totalLength)
                             \o <<".", ".", ".">>]),
               totalLength |-> maxLength]
         ELSE ProcessItems(Tail(items), maxLength,
                           totalLength + TextLength(item), Append(acc, item))

\* the loop over blocks
RECURSIVE ProcessBlocks(_, _, _, _)
ProcessBlocks(blocks, maxLength, totalLength, preview) ==
    IF blocks = << >> \/ totalLength >= maxLength
    THEN [threw |-> FALSE, preview |-> preview]
    ELSE LET block == Head(blocks) IN
         IF block = Null
         THEN [threw |-> TRUE, preview |-> preview]
         ELSE LET r == IF "content" \in DOMAIN block
                       THEN ProcessItems(block.content, maxLength, totalLength, << >>)
                       ELSE [threw |-> FALSE, content |-> << >>,
                             totalLength |-> totalLength]
              IN IF r.threw
                 THEN [threw |-> TRUE, preview |-> preview]
                 ELSE ProcessBlocks(Tail(blocks), maxLength, r.totalLength,
                          IF r.content # << >>
                          THEN Append(preview, [type |-> PreviewType(block),
                                                content |-> r.content])
                          ELSE preview)

\* getPreviewText(content, maxLength): the try, and the catch that returns []
GetPreviewText(parsed, maxLength) ==
    IF parsed = NotJson
    THEN << >>
    ELSE LET r == ProcessBlocks(parsed, maxLength, 0, << >>)
         IN IF r.threw THEN << >> ELSE r.preview

\* no preview was asked for
CardAbsent ==
    /\ cardContent = << >>
    /\ cardMaxLength = 0
    /\ cardPreview = << >>
    /\ previewDone = FALSE

\* handleDelete was not called; the open note is in both stores
NoCallYet == [pc |-> "none", user |-> "<null>"]

NoDelete ==
    /\ deleteCall = NoCallYet
    /\ inLocal = TRUE
    /\ inRemote = TRUE

\* duration * 60: the seconds of a minute
Minute == 60
\* the custom durations of the three session types, in minutes
Durations == {1}
\* how long the clock runs, and how often the user starts, pauses or
\* resumes, and stops
MaxTime == 62
MaxSessions == 1
MaxToggles == 2
MaxCalls == 2

\* activePomodoro === null
NoSession == [id |-> 0, startTime |-> 0, duration |-> 0]
\* pausedTimeLeft === null
NoPause == -1
\* no startPomodoro call is awaiting
NoStart == [at |-> -1, duration |-> 0]

\* the dashboard with no session
NoPomodoro ==
    /\ now = 0
    /\ activePomodoro = NoSession
    /\ timeLeft = 0
    /\ isPaused = FALSE
    /\ pausedTimeLeft = NoPause
    /\ startCall = NoStart
    /\ completing = 0
    /\ completeCalls = 0
    /\ toggles = 0
    /\ sessions = 0
    /\ lastPause = [seen |-> FALSE, r |-> 0, resumed |-> FALSE]

(***************************************************************************)
(* Calendar page: loadEvents.                                              *)
(***************************************************************************)
InitCal ==
    /\ DocsAbsent /\ ShareAbsent /\ CardAbsent /\ NoDelete /\ NoPomodoro
    /\ EditNoteAbsent
    /\ NotesAbsent
    /\ NoOps
    /\ remoteStore \in SeqsUpTo(RemoteEvent, MaxRemote)
    /\ localStore \in {WithKeys(rows) : rows \in SeqsUpTo(LocalRow, MaxLocal)}
    /\ events = << >>
    /\ isLoading = FALSE
    /\ toast = "none"
    /\ loadPc = "idle"
    /\ firebaseEvents = << >>
    /\ localEvents = << >>
    /\ loadOutcome = "none"

\* loadEvents(): setIsLoading(true), then db.getSharedEvents() is awaited
LoadEventsStart ==
    /\ loadPc = "idle"
    /\ isLoading' = TRUE
    /\ loadPc' = "getSharedEvents"
    /\ loadOutcome' = "running"
    /\ UNCHANGED <<remoteStore, localStore, events, toast, firebaseEvents,
                   localEvents, opsVars, editVars, listVars, docsVars, shareVars, cardVars, delVars, pomVars>>

\* db.getSharedEvents() resolves; db.calendarEvents.toArray() is awaited
GetSharedEventsResolve ==
    /\ loadPc = "getSharedEvents"
    /\ firebaseEvents' = remoteStore
    /\ loadPc' = "toArray"
    /\ UNCHANGED <<remoteStore, localStore, events, isLoading, toast,
                   localEvents, loadOutcome, opsVars, editVars,
                   listVars, docsVars, shareVars, cardVars, delVars, pomVars>>

\* catch (error) { toast(...) } finally { setIsLoading(false) }
LoadEventsCatch(outcome) ==
    /\ toast' = "Failed to load calendar events"
    /\ isLoading' = FALSE
    /\ loadPc' = "idle"
    /\ loadOutcome' = outcome
    /\ UNCHANGED <<remoteStore, localStore, events, firebaseEvents,
                   localEvents, opsVars, editVars, listVars, docsVars, shareVars, cardVars, delVars, pomVars>>

\* db.getSharedEvents() rejects
GetSharedEventsReject ==
    /\ loadPc = "getSharedEvents"
    /\ LoadEventsCatch("remoteRejected")

\* db.calendarEvents.toArray() resolves: merge, sort, setEvents, finally
ToArrayResolve ==
    /\ loadPc = "toArray"
    /\ localEvents' = localStore
    /\ events' = MergeEvents(firebaseEvents, localStore)
    /\ isLoading' = FALSE
    /\ loadPc' = "idle"
    /\ loadOutcome' = "merged"
    /\ UNCHANGED <<remoteStore, localStore, toast, firebaseEvents, opsVars,
                   editVars, listVars, docsVars, shareVars, cardVars, delVars, pomVars>>

\* db.calendarEvents.toArray() rejects
ToArrayReject ==
    /\ loadPc = "toArray"
    /\ LoadEventsCatch("localRejected")

NextCal ==
    \/ LoadEventsStart
    \/ GetSharedEventsResolve
    \/ GetSharedEventsReject
    \/ ToArrayResolve
    \/ ToArrayReject

SpecCal == InitCal /\ [][NextCal]_vars

(***************************************************************************)
(* Calendar page: overlapping loadEvents calls and the handlers of the     *)
(* user's actions (Calendar.tsx 2362-2484, 2696-2704, 2968-2988,           *)
(* 3113-3126, 3199-3230).                                                  *)
(***************************************************************************)
\* how many actions the user takes on the page
MaxOps == 2

\* the destructive toasts of the page
ErrorToasts ==
    {"Failed to load calendar events", "Failed to create event",
     "Failed to update event", "Failed to share event"}

\* a setter that adds the new list to the list the state holds
SetEventsInto(prev, allEvents) == prev \o allEvents

\* setEvents(allEvents)
SetEvents(prev, allEvents) == allEvents

\* a call of loadEvents waiting at an await, with the remote list it read
LoadCall(n, pc, fb, after) ==
    [n |-> n, pc |-> pc, firebaseEvents |-> fb, after |-> after]

\* a handler waiting at the await of its store call
Op(kind, id, start, end) ==
    [kind |-> kind, id |-> id, startDate |-> start, endDate |-> end]

\* the events of the list that carry a local id (selectedEvent?.id)
Selectable == {events[i] : i \in {k \in DOMAIN events : events[k].id # NoLocalId}}

\* the Calendar page after its first render: the mount effect has called
\* loadEvents; the device holds one uploaded event and one created offline
InitOps ==
    /\ DocsAbsent /\ ShareAbsent /\ CardAbsent /\ NoDelete /\ NoPomodoro
    /\ EditNoteAbsent
    /\ NotesAbsent
    /\ remoteStore = <<[id |-> NoLocalId, firebaseId |-> "r1",
                        startDate |-> 2, endDate |-> 3]>>
    /\ localStore = WithKeys(<<[firebaseId |-> "r1", startDate |-> 2,
                                endDate |-> 3],
                               [firebaseId |-> NoId, startDate |-> 1,
                                endDate |-> NoDate]>>)
    /\ events = << >>
    /\ isLoading = TRUE
    /\ toast = "none"
    /\ loadPc = "idle"
    /\ firebaseEvents = << >>
    /\ localEvents = << >>
    /\ loadOutcome = "running"
    /\ currentUser \in Users \cup {NoUser}
    /\ loads = {LoadCall(1, "getSharedEvents", << >>, "none")}
    /\ nLoads = 1
    /\ ops = {}
    /\ nOps = 0
    /\ nextKey = 3
    /\ unhandled = FALSE
    /\ calStep = "none"
    /\ removed = {}

\* loadEvents() is called: setIsLoading(true), db.getSharedEvents() awaited
LoadEvents(after) ==
    /\ nLoads' = nLoads + 1
    /\ loads' = loads \cup
                   {LoadCall(nLoads + 1, "getSharedEvents", << >>, after)}
    /\ isLoading' = TRUE

\* db.getSharedEvents() of a call resolves; db.calendarEvents.toArray() is
\* awaited
GetSharedEventsResolved(l) ==
    /\ l \in loads
    /\ l.pc = "getSharedEvents"
    /\ loads' = (loads \ {l})
                   \cup {LoadCall(l.n, "toArray", remoteStore, l.after)}
    /\ calStep' = "other"
    /\ UNCHANGED <<remoteStore, localStore, events, isLoading, toast, loadPc,
                   firebaseEvents, localEvents, loadOutcome, currentUser,
                   nLoads, ops, nOps, nextKey, unhandled, removed,
                   editVars, listVars, docsVars, shareVars, cardVars, delVars, pomVars>>

\* finally { setIsLoading(false) }; handleCreateEvent goes on after its
\* await loadEvents()
LoadEventsFinally(l) ==
    /\ loads' = loads \ {l}
    /\ isLoading' = FALSE
    /\ ops' = IF l.after = "create"
              THEN ops \cup {Op("created", NoLocalId, NoDate, NoDate)}
              ELSE ops

\* catch (error) { toast(...) } of a call
LoadEventsCaught(l, outcome) ==
    /\ toast' = "Failed to load calendar events"
    /\ loadOutcome' = outcome
    /\ calStep' = "loadRejected"
    /\ LoadEventsFinally(l)
    /\ UNCHANGED <<remoteStore, localStore, events, loadPc, firebaseEvents,
                   localEvents, currentUser, nLoads, nOps, nextKey,
                   unhandled, removed, editVars, listVars, docsVars, shareVars, cardVars, delVars, pomVars>>

\* db.getSharedEvents() of a call rejects
GetSharedEventsRejected(l) ==
    /\ l \in loads
    /\ l.pc = "getSharedEvents"
    /\ LoadEventsCaught(l, "remoteRejected")

\* db.calendarEvents.toArray() of a call resolves: merge, sort, setEvents
ToArrayResolved(l) ==
    /\ l \in loads
    /\ l.pc = "toArray"
    /\ events' = SetEvents(events, MergeEvents(l.firebaseEvents, localStore))
    /\ firebaseEvents' = l.firebaseEvents
    /\ localEvents' = localStore
    /\ loadOutcome' = "merged"
    /\ calStep' = "other"
    /\ LoadEventsFinally(l)
    /\ UNCHANGED <<remoteStore, localStore, toast, loadPc, currentUser,
                   nLoads, nOps, nextKey, unhandled, removed,
                   editVars, listVars, docsVars, shareVars, cardVars, delVars, pomVars>>

\* db.calendarEvents.toArray() of a call rejects
ToArrayRejected(l) ==
    /\ l \in loads
    /\ l.pc = "toArray"
    /\ LoadEventsCaught(l, "localRejected")

\* onEventsUpdate of EventInvitations: loadEvents()
OnEventsUpdate ==
    /\ nOps < MaxOps
    /\ nOps' = nOps + 1
    /\ LoadEvents("none")
    /\ calStep' = "other"
    /\ UNCHANGED <<remoteStore, localStore, events, toast, loadPc,
                   firebaseEvents, localEvents, loadOutcome, currentUser,
                   ops, nextKey, unhandled, removed, editVars, listVars, docsVars, shareVars, cardVars, delVars, pomVars>>

\* handleCreateEvent up to its await: if (!user) throw, caught by its own
\* catch; else db.createCalendarEvent(eventToCreate) is awaited
HandleCreateEvent(span) ==
    /\ nOps < MaxOps
    /\ nOps' = nOps + 1
    /\ IF currentUser = NoUser
       THEN /\ toast' = "Failed to create event"
            /\ calStep' = "createThrew"
            /\ UNCHANGED ops
       ELSE /\ ops' = ops \cup {Op("create", NoLocalId, span[1], span[2])}
            /\ calStep' = "other"
            /\ UNCHANGED toast
    /\ UNCHANGED <<remoteStore, localStore, events, isLoading, loadPc,
                   firebaseEvents, localEvents, loadOutcome, currentUser,
                   loads, nLoads, nextKey, unhandled, removed,
                   editVars, listVars, docsVars, shareVars, cardVars, delVars, pomVars>>

\* the external ids of the records of a store
StoreIds(store) == {store[i].firebaseId : i \in DOMAIN store}

\* the external ids no record carries yet
FreshIds == FirebaseIds \ (StoreIds(remoteStore) \cup StoreIds(localStore))

\* db.createCalendarEvent resolves: the row is written to the local cache
\* and, when the mirror succeeded (f # NoId), the record is in the remote
\* store under the new external id f; then await loadEvents()
CreateCalendarEventResolve(o, f) ==
    /\ o \in ops
    /\ o.kind = "create"
    /\ f \in FreshIds \cup {NoId}
    /\ localStore' = Append(localStore,
                            [id |-> nextKey, firebaseId |-> f,
                             startDate |-> o.startDate,
                             endDate |-> o.endDate])
    /\ remoteStore' = IF f # NoId
                      THEN Append(remoteStore,
                                  [id |-> NoLocalId, firebaseId |-> f,
                                   startDate |-> o.startDate,
                                   endDate |-> o.endDate])
                      ELSE remoteStore
    /\ nextKey' = nextKey + 1
    /\ ops' = ops \ {o}
    /\ LoadEvents("create")
    /\ calStep' = "createResolved"
    /\ UNCHANGED <<events, toast, loadPc, firebaseEvents, localEvents,
                   loadOutcome, currentUser, nOps, unhandled, removed,
                   editVars, listVars, docsVars, shareVars, cardVars, delVars, pomVars>>

\* a store call rejects inside the try block of its handler: the catch
\* shows the handler's destructive toast
HandlerCaught(o, message, step) ==
    /\ ops' = ops \ {o}
    /\ toast' = message
    /\ calStep' = step
    /\ UNCHANGED <<remoteStore, localStore, events, isLoading, loadPc,
                   firebaseEvents, localEvents, loadOutcome, currentUser,
                   loads, nLoads, nOps, nextKey, unhandled, removed,
                   editVars, listVars, docsVars, shareVars, cardVars, delVars, pomVars>>

\* db.createCalendarEvent rejects
CreateCalendarEventReject(o) ==
    /\ o \in ops
    /\ o.kind = "create"
    /\ HandlerCaught(o, "Failed to create event", "createRejected")

\* handleCreateEvent after await loadEvents(): toast "Event Created"
CreateEventFinish(o) ==
    /\ o \in ops
    /\ o.kind = "created"
    /\ ops' = ops \ {o}
    /\ toast' = "Event Created"
    /\ calStep' = "other"
    /\ UNCHANGED <<remoteStore, localStore, events, isLoading, loadPc,
                   firebaseEvents, localEvents, loadOutcome, currentUser,
                   loads, nLoads, nOps, nextKey, unhandled, removed,
                   editVars, listVars, docsVars, shareVars, cardVars, delVars, pomVars>>

\* a handler of the event details dialog starts for the selected event:
\* if (!selectedEvent?.id) return; then its store call is awaited
HandleSelected(kind, e, span) ==
    /\ nOps < MaxOps
    /\ e \in Selectable
    /\ nOps' = nOps + 1
    /\ ops' = ops \cup {Op(kind, e.id, span[1], span[2])}
    /\ calStep' = "other"
    /\ UNCHANGED <<remoteStore, localStore, events, isLoading, toast, loadPc,
                   firebaseEvents, localEvents, loadOutcome, currentUser,
                   loads, nLoads, nextKey, unhandled, removed,
                   editVars, listVars, docsVars, shareVars, cardVars, delVars, pomVars>>

\* the external id of the row of the local cache with key id
FirebaseIdOf(id) ==
    IF \E i \in DOMAIN localStore : localStore[i].id = id
    THEN localStore[CHOOSE i \in DOMAIN localStore :
                        localStore[i].id = id].firebaseId
    ELSE NoId

\* db.updateCalendarEvent(id, event) resolves: the row and its remote
\* mirror carry the new dates; toast "Event Updated"; loadEvents()
UpdateCalendarEventResolve(o) ==
    /\ o \in ops
    /\ o.kind = "update"
    /\ localStore' = [i \in DOMAIN localStore |->
                        IF localStore[i].id = o.id
                        THEN [localStore[i] EXCEPT !.startDate = o.startDate,
                                                   !.endDate = o.endDate]
                        ELSE localStore[i]]
    /\ remoteStore' = [i \in DOMAIN remoteStore |->
                        IF /\ FirebaseIdOf(o.id) # NoId
                           /\ remoteStore[i].firebaseId = FirebaseIdOf(o.id)
                        THEN [remoteStore[i] EXCEPT !.startDate = o.startDate,
                                                    !.endDate = o.endDate]
                        ELSE remoteStore[i]]
    /\ ops' = ops \ {o}
    /\ toast' = "Event Updated"
    /\ LoadEvents("none")
    /\ calStep' = "other"
    /\ UNCHANGED <<events, loadPc, firebaseEvents, localEvents, loadOutcome,
                   currentUser, nOps, nextKey, unhandled, removed,
                   editVars, listVars, docsVars, shareVars, cardVars, delVars, pomVars>>

\* db.updateCalendarEvent rejects
UpdateCalendarEventReject(o) ==
    /\ o \in ops
    /\ o.kind = "update"
    /\ HandlerCaught(o, "Failed to update event", "updateRejected")

\* db.deleteCalendarEvent(id) resolves: the row and its remote mirror are
\* gone; loadEvents()
DeleteCalendarEventResolve(o) ==
    /\ o \in ops
    /\ o.kind = "delete"
    /\ localStore' = SelectSeq(localStore, LAMBDA r : r.id # o.id)
    /\ remoteStore' = SelectSeq(remoteStore,
                                LAMBDA r : \/ FirebaseIdOf(o.id) = NoId
                                           \/ r.firebaseId # FirebaseIdOf(o.id))
    /\ ops' = ops \ {o}
    /\ LoadEvents("none")
    /\ calStep' = "other"
    /\ UNCHANGED <<events, toast, loadPc, firebaseEvents, localEvents,
                   loadOutcome, currentUser, nOps, nextKey, unhandled,
                   removed, editVars, listVars, docsVars, shareVars, cardVars, delVars, pomVars>>

\* db.deleteCalendarEvent rejects: the onClick of Delete has no try block
DeleteCalendarEventReject(o) ==
    /\ o \in ops
    /\ o.kind = "delete"
    /\ ops' = ops \ {o}
    /\ unhandled' = TRUE
    /\ calStep' = "deleteRejected"
    /\ UNCHANGED <<remoteStore, localStore, events, isLoading, toast, loadPc,
                   firebaseEvents, localEvents, loadOutcome, currentUser,
                   loads, nLoads, nOps, nextKey, removed,
                   editVars, listVars, docsVars, shareVars, cardVars, delVars, pomVars>>

\* db.shareCalendarEvent resolves: toast "Event Shared"; loadEvents()
ShareCalendarEventResolve(o) ==
    /\ o \in ops
    /\ o.kind = "share"
    /\ ops' = ops \ {o}
    /\ toast' = "Event Shared"
    /\ LoadEvents("none")
    /\ calStep' = "other"
    /\ UNCHANGED <<remoteStore, localStore, events, loadPc, firebaseEvents,
                   localEvents, loadOutcome, currentUser, nOps, nextKey,
                   unhandled, removed, editVars, listVars, docsVars, shareVars, cardVars, delVars, pomVars>>

\* db.shareCalendarEvent rejects
ShareCalendarEventReject(o) ==
    /\ o \in ops
    /\ o.kind = "share"
    /\ HandlerCaught(o, "Failed to share event", "shareRejected")

\* a row that carries an external id is deleted from the local cache while
\* the device is offline: the remote store keeps its record
OfflineDelete(i) ==
    /\ nOps < MaxOps
    /\ i \in DOMAIN localStore
    /\ localStore[i].firebaseId # NoId
    /\ nOps' = nOps + 1
    /\ localStore' = SubSeq(localStore, 1, i - 1)
                        \o SubSeq(localStore, i + 1, Len(localStore))
    /\ removed' = removed \cup {localStore[i].firebaseId}
    /\ calStep' = "other"
    /\ UNCHANGED <<remoteStore, events, isLoading, toast, loadPc,
                   firebaseEvents, localEvents, loadOutcome, currentUser,
                   loads, nLoads, ops, nextKey, unhandled, editVars, listVars, docsVars, shareVars, cardVars, delVars, pomVars>>

NextOps ==
    \/ \E l \in loads : GetSharedEventsResolved(l)
    \/ \E l \in loads : GetSharedEventsRejected(l)
    \/ \E l \in loads : ToArrayResolved(l)
    \/ \E l \in loads : ToArrayRejected(l)
    \/ OnEventsUpdate
    \/ \E span \in Spans : HandleCreateEvent(span)
    \/ \E o \in ops, f \in FirebaseIds \cup {NoId} :
            CreateCalendarEventResolve(o, f)
    \/ \E o \in ops : CreateCalendarEventReject(o)
    \/ \E o \in ops : CreateEventFinish(o)
    \/ \E e \in Selectable, span \in Spans : HandleSelected("update", e, span)
    \/ \E e \in Selectable : HandleSelected("delete", e, <<NoDate, NoDate>>)
    \/ \E e \in Selectable : HandleSelected("share", e, <<NoDate, NoDate>>)
    \/ \E o \in ops : UpdateCalendarEventResolve(o)
    \/ \E o \in ops : UpdateCalendarEventReject(o)
    \/ \E o \in ops : DeleteCalendarEventResolve(o)
    \/ \E o \in ops : DeleteCalendarEventReject(o)
    \/ \E o \in ops : ShareCalendarEventResolve(o)
    \/ \E o \in ops : ShareCalendarEventReject(o)
    \/ \E i \in DOMAIN localStore : OfflineDelete(i)

SpecOps == InitOps /\ [][NextOps]_vars

(***************************************************************************)
(* Google Docs import and export: the handlers.                            *)
(***************************************************************************)
InitDocs ==
    /\ ShareAbsent /\ CardAbsent /\ NoDelete /\ NoPomodoro
    /\ CalendarAbsent
    /\ EditNoteAbsent
    /\ NotesAbsent
    /\ googleToken \in {"none", "valid", "expired"}
    /\ docsCall = NoCall
    /\ docsToast = "none"
    /\ loginOpen = "none"
    /\ lastStatus = 0
    /\ docsStep = "none"
    /\ nRequests = 0

\* handleGoogleDocsImport(docId) / handleExport('googledoc') up to
\* await db.getGoogleToken()
HandleStart(kind) ==
    /\ docsCall = NoCall
    /\ nRequests < MaxRequests
    /\ nRequests' = nRequests + 1
    /\ docsCall' = DocsCall(kind, "getGoogleToken", "none")
    /\ lastStatus' = 0
    /\ docsStep' = "other"
    /\ UNCHANGED <<googleToken, docsToast, loginOpen>>

\* login() of useGoogleLogin: the consent popup opens
Login(kind) ==
    /\ loginOpen' = kind
    /\ docsStep' = "login"
    /\ UNCHANGED docsToast

\* the toast of the else branch of the catch
FailedToast(kind) ==
    /\ docsToast' = IF kind = "import" THEN "Import failed" ELSE "Export failed"
    /\ docsStep' = "failed"
    /\ UNCHANGED loginOpen

\* catch (error): login again if the message tells of a 401, else the
\* failure toast; finally the handler is over
Catch(kind, message) ==
    /\ IF Includes401(message) THEN Login(kind) ELSE FailedToast(kind)
    /\ docsCall' = NoCall

\* db.getGoogleToken() resolves: if (!token) { login(); return; }
GetGoogleTokenResolve ==
    /\ docsCall.pc = "getGoogleToken"
    /\ IF googleToken = "none"
       THEN /\ Login(docsCall.kind)
            /\ docsCall' = NoCall
       ELSE /\ docsCall' = DocsCall(docsCall.kind,
                                    IF docsCall.kind = "import"
                                    THEN "fetchDocument"
                                    ELSE "createDocument",
                                    googleToken)
            /\ docsStep' = "other"
            /\ UNCHANGED <<docsToast, loginOpen>>
    /\ UNCHANGED <<googleToken, lastStatus, nRequests>>

\* a store call of the handler rejects
StoreReject ==
    /\ docsCall.pc \in {"getGoogleToken", "createNote"}
    /\ Catch(docsCall.kind, <<"store", "call", "failed">>)
    /\ UNCHANGED <<googleToken, lastStatus, nRequests>>

\* getGoogleDocsContent: the fetch of the document is answered
FetchDocumentAnswer(status, hasContent) ==
    /\ docsCall.pc = "fetchDocument"
    /\ status \in StatusesFor(docsCall.token)
    /\ lastStatus' = status
    /\ IF ~Ok(status)
       THEN Catch("import", FailedToFetch)
       ELSE IF ~hasContent
       THEN Catch("import", NoContentFound)
       ELSE /\ docsCall' = DocsCall("import", "createNote", docsCall.token)
            /\ docsStep' = "other"
            /\ UNCHANGED <<docsToast, loginOpen>>
    /\ UNCHANGED <<googleToken, nRequests>>

\* db.createNote resolves: toast "Import successful"
CreateNoteResolve ==
    /\ docsCall.pc = "createNote"
    /\ docsCall' = NoCall
    /\ docsToast' = "Import successful"
    /\ docsStep' = "done"
    /\ UNCHANGED <<googleToken, loginOpen, lastStatus, nRequests>>

\* exportToGoogleDocs: the request that creates the document, or the one
\* that fills it, is answered
ExportAnswer(status, apiMessage) ==
    /\ docsCall.pc \in {"createDocument", "batchUpdate"}
    /\ status \in StatusesFor(docsCall.token)
    /\ apiMessage \in ApiMessages(status)
    /\ lastStatus' = status
    /\ IF ~Ok(status)
       THEN Catch("export",
                  OrElse(apiMessage,
                         IF docsCall.pc = "createDocument"
                         THEN FailedToCreate ELSE FailedToUpdate))
       ELSE IF docsCall.pc = "createDocument"
       THEN /\ docsCall' = DocsCall("export", "batchUpdate", docsCall.token)
            /\ docsStep' = "other"
            /\ UNCHANGED <<docsToast, loginOpen>>
       ELSE /\ docsCall' = NoCall
            /\ docsToast' = IF googleToken # "none"
                            THEN "Note exported" ELSE docsToast
            /\ docsStep' = "done"
            /\ UNCHANGED loginOpen
    /\ UNCHANGED <<googleToken, nRequests>>

\* onSuccess of useGoogleLogin: db.saveGoogleToken; EditNote then calls
\* handleExport('googledoc') again, ImportDialog lists the documents
LoginSuccess ==
    /\ loginOpen # "none"
    /\ docsCall = NoCall
    /\ googleToken' = "valid"
    /\ loginOpen' = "none"
    /\ docsStep' = "other"
    /\ lastStatus' = 0
    /\ docsCall' = IF loginOpen = "export"
                   THEN DocsCall("export", "getGoogleToken", "none")
                   ELSE NoCall
    /\ UNCHANGED <<docsToast, nRequests>>

\* onError of useGoogleLogin: toast "Login Failed"
LoginError ==
    /\ loginOpen # "none"
    /\ loginOpen' = "none"
    /\ docsToast' = "Login Failed"
    /\ docsStep' = "other"
    /\ UNCHANGED <<googleToken, docsCall, lastStatus, nRequests>>

\* the stored token runs out
TokenExpires ==
    /\ googleToken = "valid"
    /\ googleToken' = "expired"
    /\ docsStep' = "other"
    /\ UNCHANGED <<docsCall, docsToast, loginOpen, lastStatus, nRequests>>

NextDocs ==
    /\ \/ \E kind \in {"import", "export"} : HandleStart(kind)
       \/ GetGoogleTokenResolve
       \/ StoreReject
       \/ \E status \in Statuses,
             hasContent \in BOOLEAN : FetchDocumentAnswer(status, hasContent)
       \/ CreateNoteResolve
       \/ \E status \in Statuses,
             apiMessage \in ApiMessages(Unauthorized) \cup ApiMessages(500) :
                ExportAnswer(status, apiMessage)
       \/ LoginSuccess
       \/ LoginError
       \/ TokenExpires
    /\ UNCHANGED <<calVars, editVars, listVars, shareVars, cardVars, delVars, pomVars>>

SpecDocs == InitDocs /\ [][NextDocs]_vars

(***************************************************************************)
(* Calendar page: editing an event that is shared.                         *)
(***************************************************************************)
InitShare ==
    /\ CardAbsent /\ NoDelete /\ NoPomodoro
    /\ CalendarAbsent
    /\ EditNoteAbsent
    /\ NotesAbsent
    /\ DocsAbsent
    /\ viewer \in {"a@x", "b@x", "c@x", "d@x"}
    /\ storedEvent = SharedEvent
    /\ selectedEvent = NoEvent
    /\ dialog = "closed"
    /\ formEvent = NoEvent
    /\ shareEmails = << >>
    /\ sharePermission = "view"
    /\ updating = NoEvent
    /\ nEdits = 0
    /\ deleting = FALSE

\* onEventClick: setSelectedEvent(event); setIsEventDetailsOpen(true)
OnEventClick ==
    /\ dialog = "closed"
    /\ storedEvent # NoEvent
    /\ selectedEvent' = storedEvent
    /\ dialog' = "details"
    /\ UNCHANGED <<viewer, storedEvent, formEvent, shareEmails, sharePermission,
                   updating, nEdits,
                   deleting>>

\* the Close button of the details
CloseDetails ==
    /\ dialog = "details"
    /\ dialog' = "closed"
    /\ UNCHANGED <<viewer, storedEvent, selectedEvent, formEvent, shareEmails,
                   sharePermission, updating, nEdits,
                   deleting>>

\* the Edit button: setEditedEvent(selectedEvent); setIsEditing(true);
\* EventForm mounts with event = initialEvent and an empty textarea
EditClick ==
    /\ dialog = "details"
    /\ CanEdit(selectedEvent, viewer)
    /\ dialog' = "editing"
    /\ formEvent' = selectedEvent
    /\ shareEmails' = << >>
    /\ sharePermission' = "view"
    /\ UNCHANGED <<viewer, storedEvent, selectedEvent, updating, nEdits,
                   deleting>>

\* onChange of the textarea "Share with others"
SetShareEmails(lines) ==
    /\ dialog = "editing"
    /\ lines # shareEmails
    /\ shareEmails' = lines
    /\ UNCHANGED <<viewer, storedEvent, selectedEvent, dialog, formEvent,
                   sharePermission, updating, nEdits,
                   deleting>>

\* onValueChange of the permission select
SetSharePermission(permission) ==
    /\ dialog = "editing"
    /\ permission # sharePermission
    /\ sharePermission' = permission
    /\ UNCHANGED <<viewer, storedEvent, selectedEvent, dialog, formEvent,
                   shareEmails, updating, nEdits,
                   deleting>>

\* the X button next to an entry of "Currently shared with"
RemoveShareClick(email) ==
    /\ dialog = "editing"
    /\ \E i \in DOMAIN formEvent.sharedWith : formEvent.sharedWith[i].email = email
    /\ formEvent' = [formEvent EXCEPT !.sharedWith =
                        SelectSeq(@, LAMBDA s : s.email # email)]
    /\ UNCHANGED <<viewer, storedEvent, selectedEvent, dialog, shareEmails,
                   sharePermission, updating, nEdits,
                   deleting>>

\* the Update button: onSubmit({...event, sharedWith: [...]}) up to
\* await db.updateCalendarEvent(selectedEvent.id, event)
UpdateClick ==
    /\ dialog = "editing"
    /\ updating = NoEvent
    /\ nEdits < MaxEdits
    /\ selectedEvent.id # NoLocalId
    /\ nEdits' = nEdits + 1
    /\ updating' = [formEvent EXCEPT !.sharedWith =
                       @ \o UniqueNewShares(@, NewShares(shareEmails, sharePermission))]
    /\ UNCHANGED <<viewer, storedEvent, selectedEvent, dialog, formEvent,
                   shareEmails, sharePermission,
                   deleting>>

\* what db.updateCalendarEvent(id, event) leaves in the store
UpdateCalendarEventWrite(stored, event) ==
    [stored EXCEPT !.sharedWith = event.sharedWith]

\* db.updateCalendarEvent resolves: toast "Event Updated", loadEvents(),
\* setIsEditing(false), setEditedEvent(null), setIsEventDetailsOpen(false)
UpdateSharedResolve ==
    /\ updating # NoEvent
    /\ storedEvent' = IF storedEvent = NoEvent
                      THEN NoEvent
                      ELSE UpdateCalendarEventWrite(storedEvent, updating)
    /\ updating' = NoEvent
    /\ dialog' = "closed"
    /\ formEvent' = NoEvent
    /\ shareEmails' = << >>
    /\ sharePermission' = "view"
    /\ UNCHANGED <<viewer, selectedEvent, nEdits,
                   deleting>>

\* db.updateCalendarEvent rejects: toast "Failed to update event"
UpdateSharedReject ==
    /\ updating # NoEvent
    /\ updating' = NoEvent
    /\ UNCHANGED <<viewer, storedEvent, selectedEvent, dialog, formEvent,
                   shareEmails, sharePermission, nEdits,
                   deleting>>

\* onCancel of EventForm
CancelEdit ==
    /\ dialog = "editing"
    /\ dialog' = "details"
    /\ formEvent' = NoEvent
    /\ shareEmails' = << >>
    /\ sharePermission' = "view"
    /\ UNCHANGED <<viewer, storedEvent, selectedEvent, updating, nEdits,
                   deleting>>

\* the Delete button, up to await db.deleteCalendarEvent(selectedEvent.id)
DeleteClick ==
    /\ dialog = "details"
    /\ CanDelete(selectedEvent, viewer)
    /\ selectedEvent.id # NoLocalId
    /\ ~deleting
    /\ deleting' = TRUE
    /\ UNCHANGED <<viewer, storedEvent, selectedEvent, dialog, formEvent,
                   shareEmails, sharePermission, updating, nEdits>>

\* db.deleteCalendarEvent resolves: loadEvents(), setIsEventDetailsOpen(false)
DeleteSharedResolve ==
    /\ deleting
    /\ deleting' = FALSE
    /\ storedEvent' = NoEvent
    /\ dialog' = "closed"
    /\ formEvent' = NoEvent
    /\ shareEmails' = << >>
    /\ sharePermission' = "view"
    /\ UNCHANGED <<viewer, selectedEvent, updating, nEdits>>

\* db.deleteCalendarEvent rejects: nothing catches it
DeleteSharedReject ==
    /\ deleting
    /\ deleting' = FALSE
    /\ UNCHANGED <<viewer, storedEvent, selectedEvent, dialog, formEvent,
                   shareEmails, sharePermission, updating, nEdits>>

NextShare ==
    /\ \/ OnEventClick
       \/ CloseDetails
       \/ EditClick
       \/ \E lines \in ShareLines : SetShareEmails(lines)
       \/ \E permission \in {"view", "edit"} : SetSharePermission(permission)
       \/ \E email \in {"b@x", "c@x", "d@x"} : RemoveShareClick(email)
       \/ UpdateClick
       \/ UpdateSharedResolve
       \/ UpdateSharedReject
       \/ CancelEdit
       \/ DeleteClick
       \/ DeleteSharedResolve
       \/ DeleteSharedReject
    /\ UNCHANGED <<calVars, editVars, listVars, docsVars, cardVars, delVars, pomVars>>

SpecShare == InitShare /\ [][NextShare]_vars

(***************************************************************************)
(* The preview of a note's content.                                        *)
(***************************************************************************)
InitCard ==
    /\ CalendarAbsent
    /\ EditNoteAbsent
    /\ NotesAbsent
    /\ DocsAbsent
    /\ ShareAbsent
    /\ NoDelete
    /\ NoPomodoro
    /\ cardContent \in Contents
    /\ cardMaxLength \in MaxLengths
    /\ cardPreview = << >>
    /\ previewDone = FALSE

\* a call of getPreviewText(note.content, maxLength)
GetPreviewTextCall ==
    /\ ~previewDone
    /\ cardPreview' = GetPreviewText(cardContent, cardMaxLength)
    /\ previewDone' = TRUE
    /\ UNCHANGED <<cardContent, cardMaxLength>>

NextCard ==
    /\ GetPreviewTextCall
    /\ UNCHANGED <<calVars, editVars, listVars, docsVars, shareVars, delVars, pomVars>>

SpecCard == InitCard /\ [][NextCard]_vars

(***************************************************************************)
(* EditNote page: the subscription effect (EditNote.tsx 81-116).           *)
(***************************************************************************)
\* if (!id || !user) return; onSnapshot(doc(firestore, 'notes', id), ...)
SubscriptionFor(id, u) ==
    IF u # NoUser THEN {[noteId |-> id, user |-> u]} ELSE {}

\* an effect without a cleanup function
CleanupNone(subs, id, u) == subs

\* return () => unsubscribe(): the cleanup of the effect that ran for (id, u)
Cleanup(subs, id, u) == subs \ SubscriptionFor(id, u)

\* a handler that patches the fields the payload carries into the old note
ApplySnapshotPatch(prev, docId, data) ==
    [id |-> IF data.id = NoId THEN prev.id ELSE data.id,
     firebaseId |-> docId,
     title |-> data.title,
     content |-> data.content,
     updatedAt |-> IF data.updatedAt = NoDate THEN prev.updatedAt
                   ELSE ToDate(data.updatedAt),
     lastEditedByEmail |-> IF data.lastEditedByEmail = NoUser
                           THEN prev.lastEditedByEmail
                           ELSE data.lastEditedByEmail,
     isPinned |-> data.isPinned]

\* updatedNote = {...data, firebaseId: doc.id, updatedAt: ...toDate()}
ApplySnapshot(prev, docId, data) ==
    [id |-> data.id,
     firebaseId |-> docId,
     title |-> data.title,
     content |-> data.content,
     updatedAt |-> ToDate(data.updatedAt),
     lastEditedByEmail |-> data.lastEditedByEmail,
     isPinned |-> data.isPinned]

\* EditNote after its first render and effects
EditNoteMounted ==
    /\ mounted = TRUE
    /\ routeId \in NoteIds
    /\ user \in Users \cup {NoUser}
    /\ editSubs = SubscriptionFor(routeId, user)
    /\ editFailed = {}
    /\ note = NoNote
    /\ title = ""
    /\ content = ""
    /\ noteLoading = TRUE
    /\ saveStatus = "saved"
    /\ localNotes = [k \in NoteKeys |-> [title |-> "T0", content |-> "C0"]]
    /\ timers = {}
    /\ saves = {}
    /\ inputs = 0
    /\ notifs = 0
    /\ lastStep = "none"
    /\ lastDoc = NoDoc
    /\ lastSave = NoSave
    /\ lastPinned = NoPinned

InitEdit ==
    /\ CalendarAbsent /\ NotesAbsent /\ DocsAbsent /\ ShareAbsent /\ CardAbsent
    /\ NoDelete /\ NoPomodoro /\ EditNoteMounted /\ recording = FALSE

\* the route id or the user changes: the cleanup of the old effect runs,
\* then the effect runs for the new (id, user)
DepsChange(newId, newUser) ==
    /\ mounted
    /\ <<newId, newUser>> # <<routeId, user>>
    /\ routeId' = newId
    /\ user' = newUser
    /\ editSubs' = Cleanup(editSubs, routeId, user)
                        \cup SubscriptionFor(newId, newUser)
    /\ lastStep' = "other"
    /\ lastDoc' = NoDoc
    /\ editFailed' = {}
    /\ lastPinned' = NoPinned
    /\ KeepSave
    /\ UNCHANGED <<inputs, notifs, mounted, note, title, content, noteLoading, saveStatus, localNotes,
                   timers, saves, recording, calVars, listVars, docsVars, shareVars, cardVars, delVars, pomVars>>

\* the component is no longer displayed: the cleanup of the effect runs
Unmount ==
    /\ mounted
    /\ mounted' = FALSE
    /\ editSubs' = Cleanup(editSubs, routeId, user)
    /\ lastStep' = "other"
    /\ lastDoc' = NoDoc
    /\ lastSave' = NoSave
    /\ lastPinned' = NoPinned
    /\ UNCHANGED <<editFailed, inputs, notifs, routeId, user, note, title, content, noteLoading,
                   saveStatus, localNotes, timers, saves, recording, calVars, listVars, docsVars, shareVars, cardVars, delVars, pomVars>>

\* onSnapshot next callback, doc.exists()
SnapshotExists(sub, data) ==
    /\ sub \in editSubs
    /\ notifs + npNotifs < MaxNotifs
    /\ notifs' = notifs + 1
    /\ note' = ApplySnapshot(note, sub.noteId, data)
    /\ title' = note'.title
    /\ content' = note'.content
    /\ noteLoading' = FALSE
    /\ lastStep' = "other"
    /\ lastDoc' = [docId |-> sub.noteId, exists |-> TRUE,
                   data |-> [id |-> data.id, firebaseId |-> NoId,
                             title |-> data.title, content |-> data.content,
                             updatedAt |-> data.updatedAt,
                             lastEditedByEmail |-> data.lastEditedByEmail,
                             isPinned |-> data.isPinned]]
    /\ lastPinned' = IF (timers = {} /\ saves = {}) \/ ~recording
                      THEN NoPinned
                      ELSE [seen |-> TRUE, value |-> data.isPinned]
    /\ KeepSave
    /\ UNCHANGED <<editFailed, inputs, mounted, routeId, user, editSubs, saveStatus, localNotes,
                   timers, saves, recording, calVars, listVars, docsVars, shareVars, cardVars, delVars, pomVars>>

\* onSnapshot next callback, the document does not exist
SnapshotMissing(sub) ==
    /\ sub \in editSubs
    /\ notifs + npNotifs < MaxNotifs
    /\ notifs' = notifs + 1
    /\ noteLoading' = FALSE
    /\ saveStatus' = "error"
    /\ lastStep' = "other"
    /\ lastDoc' = [docId |-> sub.noteId, exists |-> FALSE, data |-> NoNote]
    /\ KeepSave
    /\ KeepPinned
    /\ UNCHANGED <<editFailed, inputs, mounted, routeId, user, editSubs, note, title, content,
                   localNotes, timers, saves, recording, calVars, listVars, docsVars, shareVars, cardVars, delVars, pomVars>>

\* onSnapshot error callback; Firestore makes no further callback to a
\* listener after its error callback: the listener is gone
SnapshotError(sub) ==
    /\ sub \in editSubs
    /\ notifs + npNotifs < MaxNotifs
    /\ notifs' = notifs + 1
    /\ editSubs' = editSubs \ {sub}
    /\ noteLoading' = FALSE
    /\ saveStatus' = "error"
    /\ lastStep' = "other"
    /\ lastDoc' = NoDoc
    /\ editFailed' = editFailed \cup {sub}
    /\ KeepSave
    /\ KeepPinned
    /\ UNCHANGED <<inputs, mounted, routeId, user, note, title, content, localNotes,
                   timers, saves, recording, calVars, listVars, docsVars, shareVars, cardVars, delVars, pomVars>>

(***************************************************************************)
(* EditNote page: saveNote and the debounced saves (EditNote.tsx 131-182,  *)
(* Editor.tsx 198-210).                                                    *)
(***************************************************************************)
\* a state setter called after the component is gone changes nothing
SetState(new, old) == IF mounted THEN new ELSE old

\* user?.email || ''
EmailOf(u) == IF u # NoUser THEN u ELSE ""

\* const updatedNote = {...note, title, content, updatedAt: new Date(), ...}
UpdatedNote(n, u, newTitle, newContent) ==
    [n EXCEPT !.title = newTitle, !.content = newContent,
              !.updatedAt = Now, !.lastEditedByEmail = EmailOf(u)]

\* a call of saveNote waiting at an await
SaveCall(pc, n, u, wrote) ==
    [pc |-> pc, updatedNote |-> n, user |-> u, wroteLocal |-> wrote]

\* setNote(updatedNote); setSaveStatus('saved')
SaveNoteFinish(n) ==
    /\ note' = SetState(n, note)
    /\ saveStatus' = SetState("saved", saveStatus)

\* a catch block that only logs the error
SaveNoteCatchSilent ==
    /\ UNCHANGED <<note, saveStatus>>

\* catch (error) { setSaveStatus('error') }
SaveNoteCatch ==
    /\ saveStatus' = SetState("error", saveStatus)
    /\ UNCHANGED note

\* a call of saveNote starts while another one is in flight: it is the call
\* started last of overlapping calls
Started(upd) ==
    lastSave' = IF saves = {} \/ ~recording
                THEN NoSave
                ELSE [updatedNote |-> upd, outcome |-> "running"]

\* the call s of saveNote has ended with the given outcome
SaveEnded(s, outcome) ==
    lastSave' = IF lastSave.updatedNote = s.updatedNote
                THEN [updatedNote |-> NoNote, outcome |-> outcome]
                ELSE lastSave

\* saveNote(newTitle, newContent) of the render that saw note n and user u,
\* up to its first await
SaveNote(n, u, newTitle, newContent) ==
    IF n = NoNote
    THEN UNCHANGED <<note, saveStatus, saves, lastSave>>
    ELSE LET upd == UpdatedNote(n, u, newTitle, newContent) IN
         IF n.id # NoId
         THEN /\ saves' = saves \cup {SaveCall("update", upd, u, FALSE)}
              /\ saveStatus' = SetState("saving", saveStatus)
              /\ Started(upd)
              /\ UNCHANGED note
         ELSE IF u # NoUser
         THEN /\ saves' = saves \cup {SaveCall("syncNote", upd, u, FALSE)}
              /\ saveStatus' = SetState("saving", saveStatus)
              /\ Started(upd)
              /\ UNCHANGED note
         ELSE /\ SaveNoteFinish(upd)
              /\ lastSave' = IF saves = {} \/ ~recording
                             THEN NoSave
                             ELSE [updatedNote |-> NoNote, outcome |-> "saved"]
              /\ UNCHANGED saves

\* a timer of lodash debounce: the arguments of the last call and the
\* render whose callback armed it
Timer(kind, arg, n, u, other) ==
    [kind |-> kind, arg |-> arg, note |-> n, user |-> u, other |-> other]

\* a call of a debounced function restarts that function's timer with the
\* new arguments; the timers of earlier callbacks stay armed
Arm(ts, t) ==
    {x \in ts : <<x.kind, x.note, x.user, x.other>>
                    # <<t.kind, t.note, t.user, t.other>>} \cup {t}

\* the page shows the title input and the editor
Editing == mounted /\ ~noteLoading /\ note # NoNote

\* onChange of the title input: setTitle, debouncedSaveTitle
TitleInput(newTitle) ==
    /\ Editing
    /\ title' = newTitle
    /\ timers' = Arm(timers, Timer("title", newTitle, note, user, content))
    /\ inputs < MaxInputs
    /\ inputs' = inputs + 1
    /\ lastStep' = "other"
    /\ lastDoc' = NoDoc
    /\ KeepSave
    /\ KeepPinned
    /\ UNCHANGED <<editFailed, notifs, mounted, routeId, user, editSubs, note, content,
                   noteLoading, saveStatus, localNotes, saves, recording, calVars, listVars, docsVars, shareVars, cardVars, delVars, pomVars>>

\* onChange of BlockNoteView: debouncedSave(editor)
EditorInput(newContent) ==
    /\ Editing
    /\ timers' = Arm(timers, Timer("content", newContent, note, user, title))
    /\ inputs < MaxInputs
    /\ inputs' = inputs + 1
    /\ lastStep' = "other"
    /\ lastDoc' = NoDoc
    /\ KeepSave
    /\ KeepPinned
    /\ UNCHANGED <<editFailed, notifs, mounted, routeId, user, editSubs, note, title, content,
                   noteLoading, saveStatus, localNotes, saves, recording, calVars, listVars, docsVars, shareVars, cardVars, delVars, pomVars>>

\* what a firing timer meets: its component gone, its callback replaced by
\* a later render, or neither
FireKind(t) ==
    IF ~mounted THEN "fireTornDown"
    ELSE IF <<t.note, t.user, t.other>>
              # <<note, user, IF t.kind = "title" THEN content ELSE title>>
    THEN "fireReplaced"
    ELSE "other"

\* the 500 ms of a timer pass: the debounced function runs
TimerFire(t) ==
    /\ t \in timers
    /\ timers' = timers \ {t}
    /\ lastStep' = FireKind(t)
    /\ IF t.kind = "title"
       THEN \* if (content) saveNote(newTitle, content)
            /\ IF t.other # ""
               THEN SaveNote(t.note, t.user, t.arg, t.other)
               ELSE UNCHANGED <<note, saveStatus, saves, lastSave>>
            /\ UNCHANGED content
       ELSE \* handleContentChange: setContent, saveNote(title, contentStr)
            /\ content' = SetState(t.arg, content)
            /\ SaveNote(t.note, t.user, t.other, t.arg)
    /\ lastDoc' = NoDoc
    /\ UNCHANGED <<editFailed, inputs, notifs, mounted, routeId, user, editSubs, title, noteLoading,
                   localNotes, lastPinned, recording, calVars, listVars, docsVars, shareVars, cardVars, delVars, pomVars>>

\* await db.notes.update(note.id, updatedNote) resolves
UpdateResolve(s) ==
    /\ s \in saves
    /\ s.pc = "update"
    /\ localNotes' = [localNotes EXCEPT ![s.updatedNote.id] =
                        [title |-> s.updatedNote.title,
                         content |-> s.updatedNote.content]]
    /\ IF s.user # NoUser
       THEN /\ saves' = (saves \ {s})
                    \cup {SaveCall("syncNote", s.updatedNote, s.user, TRUE)}
            /\ lastStep' = "other"
            /\ UNCHANGED <<note, saveStatus, lastSave>>
       ELSE /\ saves' = saves \ {s}
            /\ lastStep' = "other"
            /\ SaveNoteFinish(s.updatedNote)
            /\ SaveEnded(s, "saved")
    /\ lastDoc' = NoDoc
    /\ UNCHANGED <<editFailed, inputs, notifs, mounted, routeId, user, editSubs, title, content,
                   noteLoading, timers, lastPinned, recording, calVars, listVars, docsVars, shareVars, cardVars, delVars, pomVars>>

\* await db.notes.update(...) rejects
UpdateReject(s) ==
    /\ s \in saves
    /\ s.pc = "update"
    /\ saves' = saves \ {s}
    /\ SaveEnded(s, "error")
    /\ lastStep' = "other"
    /\ SaveNoteCatch
    /\ lastDoc' = NoDoc
    /\ UNCHANGED <<editFailed, inputs, notifs, mounted, routeId, user, editSubs, title, content,
                   noteLoading, localNotes, timers,
                   lastPinned, recording, calVars, listVars, docsVars, shareVars, cardVars, delVars, pomVars>>

\* await db.syncNote(updatedNote) resolves
SyncResolve(s) ==
    /\ s \in saves
    /\ s.pc = "syncNote"
    /\ saves' = saves \ {s}
    /\ SaveEnded(s, "saved")
    /\ lastStep' = "other"
    /\ SaveNoteFinish(s.updatedNote)
    /\ lastDoc' = NoDoc
    /\ UNCHANGED <<editFailed, inputs, notifs, mounted, routeId, user, editSubs, title, content,
                   noteLoading, localNotes, timers, lastPinned, recording, calVars, listVars, docsVars, shareVars, cardVars, delVars, pomVars>>

\* await db.syncNote(updatedNote) rejects
SyncReject(s) ==
    /\ s \in saves
    /\ s.pc = "syncNote"
    /\ saves' = saves \ {s}
    /\ SaveEnded(s, "error")
    /\ lastStep' = "syncRejected"
    /\ SaveNoteCatch
    /\ lastDoc' = NoDoc
    /\ UNCHANGED <<editFailed, inputs, notifs, mounted, routeId, user, editSubs, title, content,
                   noteLoading, localNotes, timers,
                   lastPinned, recording, calVars, listVars, docsVars, shareVars, cardVars, delVars, pomVars>>

\* the subscription effect alone: route changes, sign-in and sign-out
NextSub ==
    \/ \E newId \in NoteIds, newUser \in Users \cup {NoUser} :
            DepsChange(newId, newUser)
    \/ Unmount
    \/ \E sub \in editSubs, data \in Payload : SnapshotExists(sub, data)
    \/ \E sub \in editSubs : SnapshotMissing(sub)
    \/ \E sub \in editSubs : SnapshotError(sub)

\* editing one note: sign-in and sign-out, notifications, edits and saves
NextEdit ==
    \/ \E newUser \in Users \cup {NoUser} : DepsChange(routeId, newUser)
    \/ Unmount
    \/ \E sub \in editSubs, data \in Payload : SnapshotExists(sub, data)
    \/ \E sub \in editSubs : SnapshotMissing(sub)
    \/ \E sub \in editSubs : SnapshotError(sub)
    \/ \E newTitle \in TypedTitles : TitleInput(newTitle)
    \/ \E newContent \in TypedContents : EditorInput(newContent)
    \/ \E t \in timers : TimerFire(t)
    \/ \E s \in saves : UpdateResolve(s)
    \/ \E s \in saves : UpdateReject(s)
    \/ \E s \in saves : SyncResolve(s)
    \/ \E s \in saves : SyncReject(s)

\* one note is opened
InitEditNote == InitEdit /\ routeId = "n1"

SpecEdit == InitEditNote /\ [][NextEdit]_vars

\* the same page, with the history of overlapping saves and of the
\* notifications that arrive during a save recorded
InitHist ==
    /\ CalendarAbsent /\ NotesAbsent /\ DocsAbsent /\ ShareAbsent /\ CardAbsent
    /\ NoDelete /\ NoPomodoro /\ EditNoteMounted /\ routeId = "n1" /\ recording = TRUE

SpecHist == InitHist /\ [][NextEdit]_vars

(***************************************************************************)
(* EditNote page: opening a note.                                          *)
(***************************************************************************)
\* Firestore calls one of the callbacks of a listener
Deliver ==
    \E sub \in editSubs :
        \/ \E data \in Payload : SnapshotExists(sub, data)
        \/ SnapshotMissing(sub)
        \/ SnapshotError(sub)

\* a note is opened in any authentication state: the route changes, the
\* authentication produces a user or never does, callbacks arrive, the page
\* is left
NextOpen ==
    \/ \E newId \in NoteIds, newUser \in Users \cup {user} :
            DepsChange(newId, newUser)
    \/ Deliver
    \/ Unmount

\* a listener that is set up gets its first callback; whether a user signs
\* in is not up to the page
SpecOpen == InitEdit /\ [][NextOpen]_vars /\ WF_vars(Deliver)

\* C30: opening a note always leaves the loading state: isLoading is
\* eventually false (or the page is left)
C30_LoadingEnds == <>(~noteLoading \/ ~mounted)

(***************************************************************************)
(* EditNote page: handleDelete.                                            *)
(***************************************************************************)
\* navigate('/notes'): the page is left, the cleanup of its effect runs
Navigate ==
    /\ mounted' = FALSE
    /\ editSubs' = Cleanup(editSubs, routeId, user)
    /\ lastStep' = "other"
    /\ lastDoc' = NoDoc

\* the page stays as it is
Stay == UNCHANGED <<mounted, editSubs, lastStep, lastDoc>>

\* what handleDelete does after db.notes.delete: db.deleteNote if the user
\* it read is signed in, else navigate at once
AfterLocalDelete(u) ==
    IF u # NoUser
    THEN deleteCall' = [pc |-> "remote", user |-> u] /\ Stay
    ELSE deleteCall' = [pc |-> "done", user |-> u] /\ Navigate

\* the user presses Delete and confirms; the call runs to its first await
HandleDelete ==
    /\ mounted
    /\ deleteCall.pc = "none"
    /\ note.firebaseId # NoId
    /\ IF note.id # NoId
       THEN deleteCall' = [pc |-> "local", user |-> user] /\ Stay
       ELSE AfterLocalDelete(user)
    /\ UNCHANGED <<inLocal, inRemote, editFailed, inputs, notifs, routeId, user, note, title,
                   content, noteLoading, saveStatus, localNotes, timers, saves, histVars,
                   calVars, listVars, docsVars, shareVars, cardVars, pomVars>>

\* await db.notes.delete(note.id) resolves: the local record is gone
LocalDeleteResolve ==
    /\ deleteCall.pc = "local"
    /\ inLocal' = FALSE
    /\ AfterLocalDelete(deleteCall.user)
    /\ UNCHANGED <<inRemote, editFailed, inputs, notifs, routeId, user, note, title,
                   content, noteLoading, saveStatus, localNotes, timers, saves, histVars,
                   calVars, listVars, docsVars, shareVars, cardVars, pomVars>>

\* await db.notes.delete(note.id) rejects: the catch logs the error
LocalDeleteReject ==
    /\ deleteCall.pc = "local"
    /\ deleteCall' = [deleteCall EXCEPT !.pc = "failed"]
    /\ UNCHANGED <<inLocal, inRemote, editVars, calVars, listVars, docsVars, shareVars,
                   cardVars, pomVars>>

\* await db.deleteNote(note.firebaseId) resolves: the remote record is gone,
\* then navigate
RemoteDeleteResolve ==
    /\ deleteCall.pc = "remote"
    /\ inRemote' = FALSE
    /\ deleteCall' = [deleteCall EXCEPT !.pc = "done"]
    /\ Navigate
    /\ UNCHANGED <<inLocal, editFailed, inputs, notifs, routeId, user, note, title,
                   content, noteLoading, saveStatus, localNotes, timers, saves, histVars,
                   calVars, listVars, docsVars, shareVars, cardVars, pomVars>>

\* await db.deleteNote(note.firebaseId) rejects: the catch logs the error
RemoteDeleteReject ==
    /\ deleteCall.pc = "remote"
    /\ deleteCall' = [deleteCall EXCEPT !.pc = "failed"]
    /\ UNCHANGED <<inLocal, inRemote, editVars, calVars, listVars, docsVars, shareVars,
                   cardVars, pomVars>>

\* opening notes, signing in and out, notifications, and deleting
NextDelete ==
    \/ \E newId \in NoteIds, newUser \in Users \cup {NoUser} :
            DepsChange(newId, newUser)
    \/ \E sub \in editSubs, data \in Payload : SnapshotExists(sub, data)
    \/ \E sub \in editSubs : SnapshotMissing(sub)
    \/ \E sub \in editSubs : SnapshotError(sub)
    \/ HandleDelete
    \/ LocalDeleteResolve
    \/ LocalDeleteReject
    \/ RemoteDeleteResolve
    \/ RemoteDeleteReject

SpecDelete == InitEditNote /\ [][NextDelete]_vars

\* C27: after handleDelete finishes, whether it succeeded or failed, the
\* note is never left deleted from the local cache but present in the remote
\* store
C27_DeleteAllOrNothing ==
    deleteCall.pc \in {"done", "failed"} => ~(~inLocal /\ inRemote)

(***************************************************************************)
(* Notes page: the list subscriptions (part_004 1436-1531).                *)
(***************************************************************************)
\* if (!user) return; onSnapshot(sharesQuery, ...); onSnapshot(notesQuery, ...)
ListSubscriptionsFor(u) ==
    IF u # NoUser
    THEN {[kind |-> "shares", user |-> u], [kind |-> "notes", user |-> u]}
    ELSE {}

\* return () => { unsubscribeNotes(); unsubscribeShares(); }
ListCleanup(subs, u) == subs \ ListSubscriptionsFor(u)

\* the Note objects built from the documents with the given ids
DocsOf(ids, owner) ==
    [i \in DOMAIN ids |-> [firebaseId |-> ids[i], ownerUserId |-> owner]]

RECURSIVE FilterByOwner(_, _, _)
\* prev.filter(note => note.ownerUserId === uid), or !== uid
FilterByOwner(list, uid, owned) ==
    IF list = << >> THEN << >>
    ELSE (IF (Head(list).ownerUserId = uid) = owned
          THEN <<Head(list)>> ELSE << >>)
            \o FilterByOwner(Tail(list), uid, owned)

RECURSIVE PushUnique(_, _)
\* more.forEach(n => { if (!unique.some(same firebaseId)) unique.push(n) })
PushUnique(unique, more) ==
    IF more = << >> THEN unique
    ELSE PushUnique(
            IF \E i \in DOMAIN unique :
                    unique[i].firebaseId = Head(more).firebaseId
            THEN unique ELSE Append(unique, Head(more)),
            Tail(more))

\* the updater of setNotes in the shares handler
SharesUpdater(prev, sharedNotes, uid) ==
    PushUnique(FilterByOwner(prev, uid, TRUE), sharedNotes)

\* the updater of setNotes in the owned-notes handler
OwnedUpdater(prev, ownedNotes, uid) ==
    PushUnique(FilterByOwner(prev, uid, FALSE), ownedNotes)

\* a loadInitialData call waiting at an await, with what it has read
InitLoad(u, pc, ownedNotes, sharedNoteIds) ==
    [user |-> u, pc |-> pc, ownedNotes |-> ownedNotes,
     sharedNoteIds |-> sharedNoteIds]

\* if (!user) return; setIsLoading(true); ... await getDocs(ownedQuery)
LoadInitialData(u) ==
    IF u # NoUser THEN {InitLoad(u, "getOwned", << >>, << >>)} ELSE {}

\* the Notes page after its first render and effects
NotesMounted ==
    /\ npMounted = TRUE
    /\ npUser \in Users \cup {NoUser}
    /\ listSubs = ListSubscriptionsFor(npUser)
    /\ listFailed = {}
    /\ shares = << >>
    /\ notes = << >>
    /\ fetches = {}
    /\ npNotifs = 0
    /\ lastShares = NoShares
    /\ fetchFailed = FALSE
    /\ initLoads = LoadInitialData(npUser)
    /\ npLoading = (npUser # NoUser)
    /\ lastOwned = NoOwned
    /\ npStep = "none"

InitNotes == CalendarAbsent /\ EditNoteAbsent /\ DocsAbsent /\ ShareAbsent /\ CardAbsent /\ NoDelete /\ NoPomodoro /\ NotesMounted

\* the user changes: cleanup of the old effect, then the effect runs again
NotesUserChange(newUser) ==
    /\ npMounted
    /\ newUser # npUser
    /\ npUser' = newUser
    /\ listSubs' = ListCleanup(listSubs, npUser)
                        \cup ListSubscriptionsFor(newUser)
    /\ listFailed' = {}
    /\ initLoads' = initLoads \cup LoadInitialData(newUser)
    /\ npLoading' = (npLoading \/ newUser # NoUser)
    /\ lastOwned' = NoOwned
    /\ UNCHANGED <<npMounted, shares, notes, fetches, npNotifs, lastShares,
                   fetchFailed, npStep, calVars, editVars, docsVars, shareVars, cardVars, delVars, pomVars>>

\* the Notes page is no longer displayed
NotesUnmount ==
    /\ npMounted
    /\ npMounted' = FALSE
    /\ listSubs' = ListCleanup(listSubs, npUser)
    /\ UNCHANGED <<listFailed, npUser, shares, notes, fetches, npNotifs, lastShares,
                   fetchFailed, loadVars, calVars, editVars, docsVars, shareVars, cardVars, delVars, pomVars>>

\* the shares listener is notified: setShares, then getDocs of the shared
\* notes is awaited when the list is not empty
SharesSnapshot(sub, sharesData) ==
    /\ sub \in listSubs
    /\ sub.kind = "shares"
    /\ notifs + npNotifs < MaxNotifs
    /\ npNotifs' = npNotifs + 1
    /\ shares' = sharesData
    /\ lastShares' = [seen |-> TRUE, ids |-> sharesData]
    /\ fetches' = IF Len(sharesData) > 0
                  THEN fetches \cup {[n |-> npNotifs + 1, ids |-> sharesData,
                                       user |-> sub.user]}
                  ELSE fetches
    /\ UNCHANGED <<listFailed, npMounted, npUser, listSubs, notes, fetchFailed, loadVars, calVars,
                   editVars, docsVars, shareVars, cardVars, delVars, pomVars>>

\* getDocs(sharedQuery) of a shares handler resolves: setNotes(prev => ...)
GetDocsResolve(f) ==
    /\ f \in fetches
    /\ fetches' = fetches \ {f}
    /\ notes' = IF npMounted
                THEN SharesUpdater(notes, DocsOf(f.ids, OtherUser), f.user)
                ELSE notes
    /\ npStep' = "shared"
    /\ UNCHANGED <<listFailed, npMounted, npUser, listSubs, shares, npNotifs, lastShares,
                   fetchFailed, initLoads, npLoading, lastOwned, calVars, editVars, docsVars, shareVars, cardVars, delVars, pomVars>>

\* getDocs(sharedQuery) rejects: console.error
GetDocsReject(f) ==
    /\ f \in fetches
    /\ fetches' = fetches \ {f}
    /\ fetchFailed' = TRUE
    /\ UNCHANGED <<listFailed, npMounted, npUser, listSubs, shares, notes, npNotifs,
                   lastShares, loadVars, calVars, editVars, docsVars, shareVars, cardVars, delVars, pomVars>>

\* the owned-notes listener is notified: setNotes(prev => ...)
OwnedSnapshot(sub, ownedIds) ==
    /\ sub \in listSubs
    /\ sub.kind = "notes"
    /\ notifs + npNotifs < MaxNotifs
    /\ npNotifs' = npNotifs + 1
    /\ notes' = OwnedUpdater(notes, DocsOf(ownedIds, sub.user), sub.user)
    /\ lastOwned' = [seen |-> TRUE, ids |-> ownedIds,
                     afterRead |-> \E l \in initLoads : l.pc # "getOwned"]
    /\ npStep' = "owned"
    /\ UNCHANGED <<listFailed, npMounted, npUser, listSubs, shares, fetches, lastShares,
                   fetchFailed, initLoads, npLoading, calVars, editVars, docsVars, shareVars, cardVars, delVars, pomVars>>

\* a list listener fails: no error callback is given, and Firestore makes
\* no further callback to a listener that failed
ListSnapshotError(sub) ==
    /\ sub \in listSubs
    /\ listSubs' = listSubs \ {sub}
    /\ listFailed' = listFailed \cup {sub}
    /\ UNCHANGED <<npMounted, npUser, shares, notes, fetches, npNotifs,
                   lastShares, fetchFailed, loadVars, calVars, editVars, docsVars, shareVars, cardVars, delVars, pomVars>>

NextNotes ==
    \/ \E newUser \in Users \cup {NoUser} : NotesUserChange(newUser)
    \/ NotesUnmount
    \/ \E sub \in listSubs, sharesData \in SharesData :
            SharesSnapshot(sub, sharesData)
    \/ \E f \in fetches : GetDocsResolve(f)
    \/ \E f \in fetches : GetDocsReject(f)
    \/ \E sub \in listSubs, ownedIds \in OwnedData :
            OwnedSnapshot(sub, ownedIds)
    \/ \E sub \in listSubs : ListSnapshotError(sub)

SpecNotes == InitNotes /\ [][NextNotes]_vars

(***************************************************************************)
(* Notes page: loadInitialData (part_004 1319-1434), for one signed-in     *)
(* user, together with the two listeners.                                  *)
(***************************************************************************)
\* the naive list: the fetched notes after the ones already there
SetNotesAppend(prev, uniqueNotes) == prev \o uniqueNotes

\* setNotes(uniqueNotes) of loadInitialData
SetNotes(prev, uniqueNotes) == uniqueNotes

\* getDocs(ownedQuery) resolves; Promise.all of the two shares queries is
\* awaited
GetOwnedResolve(l, ownedIds) ==
    /\ l \in initLoads
    /\ l.pc = "getOwned"
    /\ initLoads' = (initLoads \ {l})
            \cup {InitLoad(l.user, "getShares", DocsOf(ownedIds, l.user), << >>)}
    /\ UNCHANGED <<npMounted, npUser, listSubs, listFailed, shares, notes, fetches,
                   npNotifs, lastShares, fetchFailed, npLoading, lastOwned, npStep,
                   calVars, editVars, docsVars, shareVars, cardVars, delVars, pomVars>>

\* both shares queries resolve: setShares(allShares); with no shared note
\* setNotes(ownedNotes), else getDocs(sharedQuery) is awaited
GetSharesResolve(l, sharesData) ==
    /\ l \in initLoads
    /\ l.pc = "getShares"
    /\ shares' = IF npMounted THEN sharesData ELSE shares
    /\ IF Len(sharesData) > 0
       THEN /\ initLoads' = (initLoads \ {l})
                    \cup {InitLoad(l.user, "getShared", l.ownedNotes, sharesData)}
            /\ UNCHANGED <<notes, npStep>>
       ELSE /\ initLoads' = (initLoads \ {l})
                    \cup {InitLoad(l.user, "getTags", l.ownedNotes, << >>)}
            /\ notes' = IF npMounted THEN SetNotes(notes, l.ownedNotes) ELSE notes
            /\ npStep' = "loaded"
    /\ UNCHANGED <<npMounted, npUser, listSubs, listFailed, fetches, npNotifs,
                   lastShares, fetchFailed, npLoading, lastOwned,
                   calVars, editVars, docsVars, shareVars, cardVars, delVars, pomVars>>

\* getDocs(sharedQuery) resolves: setNotes(uniqueNotes); db.getTags() is
\* awaited
GetSharedResolve(l) ==
    /\ l \in initLoads
    /\ l.pc = "getShared"
    /\ initLoads' = (initLoads \ {l})
            \cup {InitLoad(l.user, "getTags", l.ownedNotes, l.sharedNoteIds)}
    /\ notes' = IF npMounted
                THEN SetNotes(notes, PushUnique(l.ownedNotes,
                                               DocsOf(l.sharedNoteIds, OtherUser)))
                ELSE notes
    /\ npStep' = "loaded"
    /\ UNCHANGED <<npMounted, npUser, listSubs, listFailed, shares, fetches, npNotifs,
                   lastShares, fetchFailed, npLoading, lastOwned,
                   calVars, editVars, docsVars, shareVars, cardVars, delVars, pomVars>>

\* db.getTags() and db.getFolders() resolve; finally setIsLoading(false)
GetTagsResolve(l) ==
    /\ l \in initLoads
    /\ l.pc = "getTags"
    /\ initLoads' = initLoads \ {l}
    /\ npLoading' = IF npMounted THEN FALSE ELSE npLoading
    /\ UNCHANGED <<npMounted, npUser, listSubs, listFailed, shares, notes, fetches,
                   npNotifs, lastShares, fetchFailed, lastOwned, npStep,
                   calVars, editVars, docsVars, shareVars, cardVars, delVars, pomVars>>

\* an await of loadInitialData rejects: console.error; finally
\* setIsLoading(false)
LoadInitialDataReject(l) ==
    /\ l \in initLoads
    /\ initLoads' = initLoads \ {l}
    /\ npLoading' = IF npMounted THEN FALSE ELSE npLoading
    /\ UNCHANGED <<npMounted, npUser, listSubs, listFailed, shares, notes, fetches,
                   npNotifs, lastShares, fetchFailed, lastOwned, npStep,
                   calVars, editVars, docsVars, shareVars, cardVars, delVars, pomVars>>

NextList ==
    \/ \E sub \in listSubs, sharesData \in SharesData :
            SharesSnapshot(sub, sharesData)
    \/ \E f \in fetches : GetDocsResolve(f)
    \/ \E f \in fetches : GetDocsReject(f)
    \/ \E sub \in listSubs, ownedIds \in OwnedData :
            OwnedSnapshot(sub, ownedIds)
    \/ \E l \in initLoads, ownedIds \in OwnedData : GetOwnedResolve(l, ownedIds)
    \/ \E l \in initLoads, sharesData \in SharesData : GetSharesResolve(l, sharesData)
    \/ \E l \in initLoads : GetSharedResolve(l)
    \/ \E l \in initLoads : GetTagsResolve(l)
    \/ \E l \in initLoads : LoadInitialDataReject(l)

SpecList == InitNotes /\ [][NextList]_vars

\* the subscriptions of both pages
InitSubs ==
    /\ CalendarAbsent /\ DocsAbsent /\ ShareAbsent /\ CardAbsent /\ NoDelete /\ NoPomodoro
    /\ EditNoteMounted /\ NotesMounted /\ recording = FALSE

NextSubs == NextSub \/ NextNotes

SpecSubs == InitSubs /\ [][NextSubs]_vars

(***************************************************************************)
(* Claims about the loadEvents merge.                                      *)
(***************************************************************************)
\* the external ids occurring in a list of events
IdsOf(list) == {list[i].firebaseId : i \in DOMAIN list}
\* how many times a record occurs in a list
Occurrences(list, e) == Cardinality({j \in DOMAIN list : list[j] = e})
\* the last record of a list that carries the external id f
LastWithId(list, f) ==
    list[CHOOSE i \in DOMAIN list :
            /\ list[i].firebaseId = f
            /\ \A k \in DOMAIN list : list[k].firebaseId = f => k <= i]

\* C1: after a completed merge, every local event without an external id
\* occurs in the events list exactly once, however many such events exist.
C1_LocalOnlyPreserved ==
    loadOutcome = "merged" =>
        \A i \in DOMAIN localEvents :
            localEvents[i].firebaseId = NoId =>
                Occurrences(events, localEvents[i]) = 1

\* C2: when db.getSharedEvents() rejects, the events list is afterwards
\* exactly the content of the local cache.
C2_DegradeToLocal ==
    loadOutcome = "remoteRejected" => events = localStore

\* C3: for every external id that occurs in both the remote and the local
\* list of a merge, the events list holds for that id the remote record,
\* field by field, and no local record.
C3_RemotePrecedence ==
    loadOutcome = "merged" =>
        \A f \in IdsOf(firebaseEvents) \cap IdsOf(localEvents) :
            /\ \E j \in DOMAIN events : events[j].firebaseId = f
            /\ \A j \in DOMAIN events :
                    events[j].firebaseId = f =>
                        events[j] = LastWithId(firebaseEvents, f)

\* C3 witness: a merge in which a local record shares its external id with
\* a remote record and differs from it
C3_Witness ==
    /\ loadOutcome = "merged"
    /\ \E i \in DOMAIN firebaseEvents, k \in DOMAIN localEvents :
            /\ firebaseEvents[i].firebaseId = localEvents[k].firebaseId
            /\ firebaseEvents[i].startDate # localEvents[k].startDate
            /\ firebaseEvents[i].endDate # localEvents[k].endDate

\* C4: the events list never holds two records with the same non-null
\* external id.
C4_NoDuplication ==
    \A i, j \in DOMAIN events :
        (i # j /\ events[i].firebaseId = events[j].firebaseId)
            => events[i].firebaseId = NoId

\* C4 witness: a merge of a remote list that repeats an id and a local list
\* that repeats an id
C4_Witness ==
    /\ loadOutcome = "merged"
    /\ Len(events) >= 2
    /\ \E i, j \in DOMAIN firebaseEvents :
            i # j /\ firebaseEvents[i].firebaseId = firebaseEvents[j].firebaseId
    /\ \E i, j \in DOMAIN localEvents :
            /\ i # j
            /\ localEvents[i].firebaseId = localEvents[j].firebaseId
            /\ localEvents[i].firebaseId # NoId

(***************************************************************************)
(* Claims about the debounced saves, the subscriptions and saveNote.       *)
(***************************************************************************)
\* C6: a debounced save that is still waiting when its component is
\* unmounted, or when its callback is re-created, never fires afterwards.
C6_DebouncedSavesCancelled ==
    lastStep \notin {"fireTornDown", "fireReplaced"}

SharedInList ==
    {notes[i].firebaseId : i \in {k \in DOMAIN notes :
                                    notes[k].ownerUserId = OtherUser}}

\* C8: once every shares handler has finished, the shared notes in the
\* notes list are exactly those the last shares notification referenced.
C8_LastNotificationWins ==
    (npMounted /\ lastShares.seen /\ fetches = {} /\ ~fetchFailed) =>
        SharedInList = {lastShares.ids[i] : i \in DOMAIN lastShares.ids}

\* the note, title and content a notification for an existing document
\* leaves, but for the id field
PayloadApplied ==
    /\ note.firebaseId = lastDoc.docId
    /\ note.title = lastDoc.data.title
    /\ note.content = lastDoc.data.content
    /\ note.updatedAt = ToDate(lastDoc.data.updatedAt)
    /\ note.lastEditedByEmail = lastDoc.data.lastEditedByEmail
    /\ title = lastDoc.data.title
    /\ content = lastDoc.data.content

\* C9 as stated: after a notification for an existing document the note,
\* title and content are those of the payload, with the document id as id
\* and as firebaseId.
C9_WholesaleWithDocId ==
    lastDoc.exists => (PayloadApplied /\ note.id = lastDoc.docId)

\* C9 amended: after a notification for an existing document the note,
\* title and content are those of the payload, with the document id as
\* firebaseId and the id field as the payload carries it (undefined when
\* the payload has none); nothing is kept from the previous state.
C9_WholesaleReplacement ==
    lastDoc.exists => (PayloadApplied /\ note.id = lastDoc.data.id)

\* C9 witness: a notification has replaced the state while a typed title
\* was waiting to be saved, and the note of the render that armed the
\* timer had an id and an editor that the payload does not carry
C9_Witness ==
    /\ lastDoc.exists
    /\ \E t \in timers :
            /\ t.kind = "title"
            /\ t.arg # title
            /\ t.note.id # NoId /\ note.id = NoId
            /\ t.note.lastEditedByEmail # NoUser
            /\ note.lastEditedByEmail = NoUser

\* C10: a save that has reached the remote mirror has written the new
\* title and content to the local cache before.
C10_LocalWriteFirst ==
    \A s \in saves : s.pc = "syncNote" => s.wroteLocal

C13_SortedByStart ==
    \A i \in 1..(Len(events) - 1) :
        GetTime(events[i].startDate) <= GetTime(events[i + 1].startDate)

\* C13 witness: a merge of two remote events fetched in the reverse of their
\* start order
C13_Witness ==
    /\ loadOutcome = "merged"
    /\ Len(firebaseEvents) = 2
    /\ Len(events) >= 2
    /\ firebaseEvents[1].firebaseId # firebaseEvents[2].firebaseId
    /\ firebaseEvents[1].startDate > firebaseEvents[2].startDate

\* C14: after the subscription reported that the document does not exist,
\* the displayed page is in the 'Note not found' state: not loading and no
\* note held.
C14_NotFoundShown ==
    (mounted /\ lastDoc # NoDoc /\ ~lastDoc.exists) =>
        (~noteLoading /\ note = NoNote)

(***************************************************************************)
(* Claims about overlapping loadEvents calls and the calendar handlers.    *)
(***************************************************************************)
\* C12: after a loadEvents call has completed its merge, the events list is
\* the complete merge of the remote list and the local list that this one
\* call read, whatever other calls are in flight.
C12_CompleteMergeOfOneCall ==
    loadOutcome = "merged" => events = MergeEvents(firebaseEvents, localEvents)

\* C12 witness: a call has completed its merge while another call that read
\* a different remote list is still in flight, after the one that completed
\* was started
C12_Witness ==
    /\ loadOutcome = "merged"
    /\ Len(events) >= 2
    /\ \E l \in loads :
            /\ l.pc = "toArray"
            /\ l.firebaseEvents # firebaseEvents
            /\ Len(l.firebaseEvents) < Len(firebaseEvents)

\* the steps at which a store call of a calendar operation rejected
RejectedSteps ==
    {"loadRejected", "createRejected", "updateRejected", "deleteRejected",
     "shareRejected"}

\* C15: when the store call of a calendar operation (load, create, update,
\* delete, share) rejects, the handler has caught it and the page shows a
\* destructive toast; no rejection has escaped a handler.
C15_ErrorsCaught ==
    calStep \in RejectedSteps => (toast \in ErrorToasts /\ ~unhandled)

\* handleCreateEvent has ended with the new row in the local cache
WroteLocal ==
    /\ calStep = "createResolved"
    /\ \E i \in DOMAIN localStore : localStore[i].id = nextKey - 1

\* C18: a create whose store call did not reject has written the event to
\* the local cache, with or without a signed-in user.
C18_CreatedLocallyFirst ==
    calStep \in {"createThrew", "createResolved"} => WroteLocal

\* C19: after a completed merge, an event that was deleted only from the
\* local cache and that the remote list still holds is in the events list,
\* as the remote record.
C19_RemoteRecordReappears ==
    loadOutcome = "merged" =>
        \A f \in removed :
            (f \in IdsOf(firebaseEvents) /\ f \notin IdsOf(localEvents)) =>
                \E j \in DOMAIN events :
                    events[j] = ConvertEvent(LastWithId(firebaseEvents, f))

\* C19 witness: a merge has completed after a row was deleted only locally,
\* and the events list holds the event
C19_Witness ==
    /\ loadOutcome = "merged"
    /\ \E f \in removed :
            /\ f \notin IdsOf(localEvents)
            /\ f \in IdsOf(firebaseEvents)
            /\ f \in IdsOf(events)


\* C16: an import or export that ended right after an answer with the
\* unauthorized status has started the login flow; it did not end with the
\* failure toast.
C16_ExpiryStartsLogin ==
    (lastStatus = Unauthorized /\ docsCall = NoCall /\ docsStep # "other")
        => (docsStep = "login" /\ loginOpen # "none")


\* C17: as long as the signed-in user is not the maker of the event, the
\* share list the store holds for it is the one it was shared with.
C17_OwnerOnlyMutation ==
    (viewer # SharedEvent.createdBy /\ storedEvent # NoEvent)
        => storedEvent.sharedWith = SharedEvent.sharedWith


\* a block that is an object whose inline items are objects
WellFormedBlock(block) ==
    /\ block # Null
    /\ "content" \in DOMAIN block =>
          \A i \in DOMAIN block.content : block.content[i] # Null

\* C20: a malformed block does not empty the preview: if the well-formed
\* blocks of a block array have a preview, the preview returned for the
\* whole array is not empty.
C20_PreviewNotEmptied ==
    (/\ previewDone
     /\ cardContent # NotJson
     /\ GetPreviewText(SelectSeq(cardContent, WellFormedBlock), cardMaxLength) # << >>)
        => cardPreview # << >>


\* the permission the share list of an event gives to an email
PermissionOf(event, email) ==
    {event.sharedWith[i].permission :
        i \in {j \in DOMAIN event.sharedWith : event.sharedWith[j].email = email}}

EmailsOf(sharedWith) == {sharedWith[i].email : i \in DOMAIN sharedWith}

\* C23: the share list the form submits holds each email at most once.
C23_SubmittedSharesUnique ==
    updating # NoEvent =>
        Cardinality(EmailsOf(updating.sharedWith)) = Len(updating.sharedWith)


\* C21: no two entries of the notes list carry the same external id.
C21_ListUniqueById ==
    \A i, j \in DOMAIN notes :
        notes[i].firebaseId = notes[j].firebaseId => i = j

C21_Witness ==
    /\ npStep = "loaded"
    /\ lastOwned.seen
    /\ lastShares.seen
    /\ Len(notes) >= 2
    /\ initLoads # {}

\* the external ids of the notes of the list that the user owns
OwnedInList ==
    {notes[i].firebaseId : i \in {k \in DOMAIN notes :
                                    notes[k].ownerUserId = npUser}}

\* C25: when loadInitialData sets the list after an owned-notes
\* notification that is newer than its own read of the owned notes, the
\* owned notes of the list are still those of the notification.
C25_LateLoadKeepsNotification ==
    (npMounted /\ npStep = "loaded" /\ lastOwned.seen /\ lastOwned.afterRead) =>
        OwnedInList = {lastOwned.ids[i] : i \in DOMAIN lastOwned.ids}


\* C24: isPinned, a field no save edits, has in memory the value the last
\* notification of the listener delivered.
C24_SaveKeepsRemoteUpdate ==
    (mounted /\ note # NoNote /\ lastPinned.seen) => note.isPinned = lastPinned.value

\* C26: when the last call of saveNote in flight has just ended, the status
\* shown is the outcome of the call that was started last.
C26_StatusOfLastSave ==
    (/\ mounted
     /\ saves = {}
     /\ lastSave.outcome \in {"saved", "error"}) => saveStatus = lastSave.outcome


(***************************************************************************)
(* Productivity page: the pomodoro timer.                                  *)
(***************************************************************************)
\* Date.getTime() and Date.now(): milliseconds of a time in seconds
Millis(t) == t * 1000

\* pausedTimeLeft ? ... : ... (null and 0 are falsy)
Truthy(x) == x # NoPause /\ x # 0

\* the remaining seconds the interval callback computes at time t
Remaining(session, paused, t) ==
    LET total == session.duration * Minute
        elapsed == (Millis(t) - (Millis(session.startTime)
                        + (IF Truthy(paused) THEN total - paused ELSE 0)))
                   \div 1000
    IN IF total - elapsed > 0 THEN total - elapsed ELSE 0

\* the user starts a session (a start button or Space); the call awaits
\* db.startPomodoroSession
StartPomodoro(duration) ==
    /\ activePomodoro = NoSession
    /\ startCall = NoStart
    /\ sessions < MaxSessions
    /\ sessions' = sessions + 1
    /\ startCall' = [at |-> now, duration |-> duration]
    /\ UNCHANGED <<now, activePomodoro, timeLeft, isPaused, pausedTimeLeft, completing,
                   completeCalls, toggles, lastPause,
                   calVars, editVars, listVars, docsVars, shareVars, cardVars, delVars>>

\* db.startPomodoroSession resolves with the session
StartResolve ==
    /\ startCall # NoStart
    /\ activePomodoro' = [id |-> sessions, startTime |-> startCall.at,
                          duration |-> startCall.duration]
    /\ timeLeft' = startCall.duration * Minute
    /\ startCall' = NoStart
    /\ completeCalls' = 0
    /\ lastPause' = [seen |-> FALSE, r |-> 0, resumed |-> FALSE]
    /\ UNCHANGED <<now, isPaused, pausedTimeLeft, completing, toggles, sessions,
                   calVars, editVars, listVars, docsVars, shareVars, cardVars, delVars>>

\* db.startPomodoroSession rejects: the catch shows a toast
StartReject ==
    /\ startCall # NoStart
    /\ startCall' = NoStart
    /\ UNCHANGED <<now, activePomodoro, timeLeft, isPaused, pausedTimeLeft, completing,
                   completeCalls, toggles, sessions, lastPause,
                   calVars, editVars, listVars, docsVars, shareVars, cardVars, delVars>>

\* the pause/resume button or the P key
TogglePause ==
    /\ activePomodoro # NoSession
    /\ toggles < MaxToggles
    /\ toggles' = toggles + 1
    /\ IF isPaused
       THEN /\ activePomodoro' = [activePomodoro EXCEPT !.startTime = now]
            /\ pausedTimeLeft' = NoPause
            /\ lastPause' = [lastPause EXCEPT !.resumed = lastPause.seen]
       ELSE /\ pausedTimeLeft' = timeLeft
            /\ lastPause' = [seen |-> TRUE, r |-> timeLeft, resumed |-> FALSE]
            /\ UNCHANGED activePomodoro
    /\ isPaused' = ~isPaused
    /\ UNCHANGED <<now, timeLeft, startCall, completing, completeCalls, sessions,
                   calVars, editVars, listVars, docsVars, shareVars, cardVars, delVars>>

\* completePomodoro() up to its await: if (!activePomodoro) return
CompletePomodoroCall ==
    IF activePomodoro = NoSession
    THEN UNCHANGED <<completing, completeCalls>>
    ELSE /\ completing' = completing + 1
         /\ completeCalls' = completeCalls + 1

\* a second passes while the interval runs: its callback sets timeLeft and,
\* at 0, calls completePomodoro
Tick ==
    /\ activePomodoro # NoSession /\ ~isPaused
    /\ now < MaxTime
    /\ now' = now + 1
    /\ timeLeft' = Remaining(activePomodoro, pausedTimeLeft, now')
    /\ IF timeLeft' = 0
       THEN completeCalls < MaxCalls /\ CompletePomodoroCall
       ELSE UNCHANGED <<completing, completeCalls>>
    /\ UNCHANGED <<activePomodoro, isPaused, pausedTimeLeft, startCall, toggles, sessions,
                   lastPause,
                   calVars, editVars, listVars, docsVars, shareVars, cardVars, delVars>>

\* a second passes with no interval: no session, or a paused one
Wait ==
    /\ activePomodoro = NoSession \/ isPaused
    /\ now < MaxTime
    /\ now' = now + 1
    /\ UNCHANGED <<activePomodoro, timeLeft, isPaused, pausedTimeLeft, startCall, completing,
                   completeCalls, toggles, sessions, lastPause,
                   calVars, editVars, listVars, docsVars, shareVars, cardVars, delVars>>

\* the Stop button or the Escape key
StopClick ==
    /\ activePomodoro # NoSession
    /\ completeCalls < MaxCalls
    /\ CompletePomodoroCall
    /\ UNCHANGED <<now, activePomodoro, timeLeft, isPaused, pausedTimeLeft, startCall, toggles,
                   sessions, lastPause,
                   calVars, editVars, listVars, docsVars, shareVars, cardVars, delVars>>

\* db.completePomodoroSession resolves: setActivePomodoro(null); loadData
\* finds no active session
CompleteResolve ==
    /\ completing > 0
    /\ completing' = completing - 1
    /\ activePomodoro' = NoSession
    /\ UNCHANGED <<now, timeLeft, isPaused, pausedTimeLeft, startCall, completeCalls, toggles,
                   sessions, lastPause,
                   calVars, editVars, listVars, docsVars, shareVars, cardVars, delVars>>

\* db.completePomodoroSession rejects: the catch shows a toast
CompleteReject ==
    /\ completing > 0
    /\ completing' = completing - 1
    /\ UNCHANGED <<now, activePomodoro, timeLeft, isPaused, pausedTimeLeft, startCall,
                   completeCalls, toggles, sessions, lastPause,
                   calVars, editVars, listVars, docsVars, shareVars, cardVars, delVars>>

InitPomodoro ==
    /\ CalendarAbsent /\ EditNoteAbsent /\ NotesAbsent /\ DocsAbsent /\ ShareAbsent
    /\ CardAbsent /\ NoDelete /\ NoPomodoro

NextPomodoro ==
    \/ \E duration \in Durations : StartPomodoro(duration)
    \/ StartResolve
    \/ StartReject
    \/ TogglePause
    \/ Tick
    \/ Wait
    \/ StopClick
    \/ CompleteResolve
    \/ CompleteReject

SpecPomodoro == InitPomodoro /\ [][NextPomodoro]_vars

\* C28: after a session paused at remaining time r was resumed, timeLeft
\* never exceeds r
C28_ResumeKeepsRemaining ==
    (activePomodoro # NoSession /\ lastPause.resumed) => timeLeft <= lastPause.r

\* C29: db.completePomodoroSession is invoked at most once for a session
C29_CompletedAtMostOnce == completeCalls <= 1

====
